------------------------------ MODULE HashProofs ------------------------------
(***************************************************************************)
(* HashReconciler implements Reconciliation, for any two lists of records, *)
(* any strategy and tolerance, and any order of the keys.  The facts about *)
(* MatchClassifier that the proofs of all reconcilers rest on come first:  *)
(* which records a verdict tells about, and that verdicts on different     *)
(* keys differ.                                                            *)
(***************************************************************************)
EXTENDS HashReconciler, SequenceTheorems, TLAPS

\* I and E hold records of the two sources.
BothSides(I, E) ==
  /\ I \subseteq Transaction /\ E \subseteq Transaction
  /\ \A t \in I : t.source = "INTERNAL"
  /\ \A t \in E : t.source = "EXTERNAL"

-----------------------------------------------------------------------------
(* Types. *)

LEMMA BuildKeyType ==
  ASSUME NEW t \in Transaction
  PROVE  BuildKey(t) \in Text
<1>1. /\ t.transaction_id \in Seq(Nat) /\ t.vendor_id \in Seq(Nat)
      /\ t.invoice_number \in Seq(Nat) /\ t.transaction_date \in Seq(Nat)
  BY DEF Transaction, Text
<1>2. <<Pipe>> \in Seq(Nat)
  BY DEF Pipe
<1>3. t.vendor_id \o <<Pipe>> \in Seq(Nat)
  BY <1>1, <1>2, ConcatProperties
<1>4. t.vendor_id \o <<Pipe>> \o t.invoice_number \in Seq(Nat)
  BY <1>1, <1>3, ConcatProperties
<1>5. t.vendor_id \o <<Pipe>> \o t.invoice_number \o <<Pipe>> \in Seq(Nat)
  BY <1>2, <1>4, ConcatProperties
<1>6. t.vendor_id \o <<Pipe>> \o t.invoice_number \o <<Pipe>> \o t.transaction_date \in Seq(Nat)
  BY <1>1, <1>5, ConcatProperties
<1> QED BY <1>1, <1>6 DEF BuildKey, Text

LEMMA ClassifyMatchType ==
  ASSUME NEW i \in Transaction, NEW e \in Transaction
  PROVE  ClassifyMatch(i, e) \in ReconciliationResult
<1>1. /\ i.amount \in Nat /\ e.amount \in Nat /\ i.tax_amount \in Nat /\ e.tax_amount \in Nat
      /\ i.transaction_id \in Text
  BY DEF Transaction
<1>2. AbsDifference(i.amount, e.amount) \in Nat /\ AbsDifference(i.tax_amount, e.tax_amount) \in Nat
  BY <1>1 DEF AbsDifference
<1>3. Mismatches(i, e) \in SUBSET Detail
  BY DEF Mismatches, Detail
<1>4. StatusOf(Mismatches(i, e)) \in Status
  BY DEF StatusOf, Status
<1> QED BY <1>1, <1>2, <1>3, <1>4 DEF ClassifyMatch, ReconciliationResult

LEMMA LoneResultTypes ==
  ASSUME NEW t \in Transaction
  PROVE  /\ MissingExternal(t) \in ReconciliationResult
         /\ MissingInternal(t) \in ReconciliationResult
         /\ Duplicate(t) \in ReconciliationResult
<1>1. t.amount \in Nat /\ t.transaction_id \in Text
  BY DEF Transaction
<1>2. MissingExternal(t) \in ReconciliationResult
  BY <1>1 DEF MissingExternal, ReconciliationResult, Status, Detail
<1>3. MissingInternal(t) \in ReconciliationResult
  BY <1>1 DEF MissingInternal, ReconciliationResult, Status, Detail
<1>4. Duplicate(t) \in ReconciliationResult
  BY <1>1 DEF Duplicate, ReconciliationResult, Status, Detail
<1> QED BY <1>2, <1>3, <1>4

\* What find_all returns is a list without repetitions of records of a source.
LEMMA ListsOfProperties ==
  ASSUME NEW source, NEW s \in ListsOf(source)
  PROVE  /\ s \in Seq(Transaction)
         /\ IsInjective(s)
         /\ Range(s) \subseteq Transaction
         /\ \A t \in Range(s) : t.source = source
BY DEF ListsOf, IsInjective, Range

-----------------------------------------------------------------------------
(* Lists without repetitions. *)

LEMMA InjectiveConcat ==
  ASSUME NEW S, NEW a \in Seq(S), NEW b \in Seq(S), IsInjective(a), IsInjective(b),
         Range(a) \intersect Range(b) = {}
  PROVE  /\ a \o b \in Seq(S)
         /\ IsInjective(a \o b)
         /\ Range(a \o b) = Range(a) \union Range(b)
<1> DEFINE c == a \o b
<1>1. /\ c \in Seq(S) /\ Len(c) = Len(a) + Len(b)
      /\ \A k \in 1..(Len(a) + Len(b)) : c[k] = IF k <= Len(a) THEN a[k] ELSE b[k - Len(a)]
  BY ConcatProperties
<1>2. Len(a) \in Nat /\ Len(b) \in Nat /\ DOMAIN a = 1..Len(a) /\ DOMAIN b = 1..Len(b)
  BY LenProperties
<1>3. DOMAIN c = 1..(Len(a) + Len(b))
  BY <1>1, LenProperties
<1> HIDE DEF c
<1>4. \A k \in DOMAIN c : \/ k \in DOMAIN a /\ c[k] = a[k]
                          \/ k - Len(a) \in DOMAIN b /\ c[k] = b[k - Len(a)] /\ k > Len(a)
  BY <1>1, <1>2, <1>3
<1>5. IsInjective(c)
  <2> SUFFICES ASSUME NEW k \in DOMAIN c, NEW l \in DOMAIN c, c[k] = c[l]
               PROVE  k = l
    BY DEF IsInjective
  <2>1. CASE k \in DOMAIN a /\ c[k] = a[k] /\ l \in DOMAIN a /\ c[l] = a[l]
    BY <2>1 DEF IsInjective
  <2>2. CASE k - Len(a) \in DOMAIN b /\ c[k] = b[k - Len(a)]
             /\ l - Len(a) \in DOMAIN b /\ c[l] = b[l - Len(a)]
    <3>1. k - Len(a) = l - Len(a)
      BY <2>2 DEF IsInjective
    <3> QED BY <3>1, <1>2, <1>3
  <2>3. ~(\E x \in DOMAIN a, y \in DOMAIN b : a[x] = b[y])
    BY DEF Range
  <2> QED BY <1>4, <2>1, <2>2, <2>3
<1>6. Range(c) = Range(a) \union Range(b)
  BY RangeConcatenation DEF c
<1> QED BY <1>1, <1>5, <1>6 DEF c

LEMMA Singleton ==
  ASSUME NEW S, NEW x \in S
  PROVE  <<x>> \in Seq(S) /\ IsInjective(<<x>>) /\ Range(<<x>>) = {x}
BY DEF IsInjective, Range

\* Duplicates reports every record of a group once.
LEMMA DuplicatesProperties ==
  ASSUME NEW g \in Seq(Transaction), IsInjective(g)
  PROVE  /\ Duplicates(g) \in Seq(ReconciliationResult)
         /\ IsInjective(Duplicates(g))
         /\ Range(Duplicates(g)) = {Duplicate(t) : t \in Range(g)}
<1>1. DOMAIN g = 1..Len(g) /\ Len(g) \in Nat
  BY LenProperties
<1>2. \A k \in 1..Len(g) : g[k] \in Transaction
  BY ElementOfSeq
<1>3. \A k \in 1..Len(g) : Duplicate(g[k]) \in ReconciliationResult
  BY <1>2, LoneResultTypes
<1>4. Duplicates(g) \in Seq(ReconciliationResult)
  BY <1>1, <1>3 DEF Duplicates
<1>5. \A t, u \in Transaction : Duplicate(t) = Duplicate(u) => t = u
  BY MatchingAssumption DEF Duplicate
<1>6. IsInjective(Duplicates(g))
  BY <1>1, <1>2, <1>5 DEF Duplicates, IsInjective
<1>7. Range(Duplicates(g)) = {Duplicate(t) : t \in Range(g)}
  BY DEF Duplicates, Range
<1> QED BY <1>4, <1>6, <1>7

-----------------------------------------------------------------------------
(* Verdicts. *)

\* A record is among the peers it has in its own source, and peers have peers
\* in common.
LEMMA PeersProperties ==
  ASSUME NEW I, NEW E, BothSides(I, E), NEW t \in I \union E
  PROVE  /\ t \in I => t \in Peers(t, I)
         /\ t \in E => t \in Peers(t, E)
         /\ Peers(t, I) \subseteq I /\ Peers(t, E) \subseteq E
         /\ \A u : BuildKey(u) = BuildKey(t) =>
              Peers(u, I) = Peers(t, I) /\ Peers(u, E) = Peers(t, E)
BY DEF Peers

LEMMA SidesAreDisjoint ==
  ASSUME NEW I, NEW E, BothSides(I, E)
  PROVE  I \intersect E = {} /\ None \notin I /\ None \notin E
BY MatchingAssumption DEF BothSides

\* Records that share a key share its ambiguity.
LEMMA AmbiguousByKey ==
  ASSUME NEW I, NEW E, NEW t, NEW u, BuildKey(u) = BuildKey(t)
  PROVE  Ambiguous(u, I, E) <=> Ambiguous(t, I, E)
BY DEF Ambiguous, Peers

\* The verdict on a record tells about it, on its own side, and about no
\* record of another key.
LEMMA VerdictTells ==
  ASSUME NEW I, NEW E, BothSides(I, E), NEW t \in I \union E
  PROVE  LET r == Verdict(t, I, E) IN
         /\ r \in ReconciliationResult
         /\ t \in I => r.internal_transaction = t
         /\ t \in E => r.external_transaction = t
         /\ r.internal_transaction # None => r.internal_transaction \in Peers(t, I)
         /\ r.external_transaction # None => r.external_transaction \in Peers(t, E)
<1>1. t \in Transaction /\ (t \in I => t.source = "INTERNAL") /\ (t \in E => t.source = "EXTERNAL")
  BY DEF BothSides
<1>2. /\ t \in I => t \in Peers(t, I)
      /\ t \in E => t \in Peers(t, E)
      /\ Peers(t, I) \subseteq I /\ Peers(t, E) \subseteq E
  BY PeersProperties
<1>3. Peers(t, I) \subseteq Transaction /\ Peers(t, E) \subseteq Transaction
  BY <1>2 DEF BothSides
<1>4. CASE Ambiguous(t, I, E)
  <2>1. Verdict(t, I, E) = Duplicate(t)
    BY <1>4 DEF Verdict
  <2>2. Duplicate(t) \in ReconciliationResult
    BY <1>1, LoneResultTypes
  <2>3. /\ t \in I => Duplicate(t).internal_transaction = t
        /\ t \in I => Duplicate(t).external_transaction = None
        /\ t \in E => Duplicate(t).external_transaction = t
        /\ t \in E => Duplicate(t).internal_transaction = None
    BY <1>1 DEF Duplicate
  <2> QED BY <2>1, <2>2, <2>3, <1>2
<1>5. CASE ~Ambiguous(t, I, E)
  <2>1. /\ \A u, v \in Peers(t, I) : u = v
        /\ \A u, v \in Peers(t, E) : u = v
    BY <1>5 DEF Ambiguous
  <2>2. CASE Peers(t, E) = {}
    <3>1. Verdict(t, I, E) = MissingExternal(t) /\ t \in I /\ t \notin E
      BY <1>2, <1>5, <2>2 DEF Verdict
    <3>2. MissingExternal(t) \in ReconciliationResult
      BY <1>1, LoneResultTypes
    <3>3. /\ MissingExternal(t).internal_transaction = t
          /\ MissingExternal(t).external_transaction = None
      BY DEF MissingExternal
    <3> QED BY <3>1, <3>2, <3>3, <1>2
  <2>3. CASE Peers(t, E) # {} /\ Peers(t, I) = {}
    <3>1. Verdict(t, I, E) = MissingInternal(t) /\ t \in E /\ t \notin I
      BY <1>2, <1>5, <2>3 DEF Verdict
    <3>2. MissingInternal(t) \in ReconciliationResult
      BY <1>1, LoneResultTypes
    <3>3. /\ MissingInternal(t).external_transaction = t
          /\ MissingInternal(t).internal_transaction = None
      BY DEF MissingInternal
    <3> QED BY <3>1, <3>2, <3>3, <1>2
  <2>4. CASE Peers(t, E) # {} /\ Peers(t, I) # {}
    <3> DEFINE i == OneOf(Peers(t, I))
               e == OneOf(Peers(t, E))
    <3>1. i \in Peers(t, I) /\ e \in Peers(t, E)
      BY <2>4 DEF OneOf
    <3>2. Verdict(t, I, E) = ClassifyMatch(i, e)
      BY <1>5, <2>4 DEF Verdict
    <3> HIDE DEF i, e
    <3>3. ClassifyMatch(i, e) \in ReconciliationResult
      BY <3>1, <1>3, ClassifyMatchType
    <3>4. /\ ClassifyMatch(i, e).internal_transaction = i
          /\ ClassifyMatch(i, e).external_transaction = e
      BY DEF ClassifyMatch
    <3>5. (t \in I => i = t) /\ (t \in E => e = t)
      BY <3>1, <2>1, <1>2
    <3> QED BY <3>1, <3>2, <3>3, <3>4, <3>5
  <2> QED BY <2>2, <2>3, <2>4
<1> QED BY <1>4, <1>5

\* Verdicts on records of different keys differ.
LEMMA VerdictsSeparate ==
  ASSUME NEW I, NEW E, BothSides(I, E), NEW t \in I \union E, NEW u \in I \union E,
         Verdict(t, I, E) = Verdict(u, I, E)
  PROVE  BuildKey(t) = BuildKey(u)
<1> DEFINE r == Verdict(t, I, E)
<1>1. CASE t \in I
  <2>1. r.internal_transaction = t /\ t # None
    BY <1>1, VerdictTells, SidesAreDisjoint
  <2>2. t \in Peers(u, I)
    BY <2>1, VerdictTells
  <2> QED BY <2>2 DEF Peers
<1>2. CASE t \in E
  <2>1. r.external_transaction = t /\ t # None
    BY <1>2, VerdictTells, SidesAreDisjoint
  <2>2. t \in Peers(u, E)
    BY <2>1, VerdictTells
  <2> QED BY <2>2 DEF Peers
<1> QED BY <1>1, <1>2

\* A record has one verdict: any verdict that tells about it is its own.
LEMMA VerdictIsOwn ==
  ASSUME NEW I, NEW E, BothSides(I, E), NEW t \in I \union E, NEW u \in I \union E,
         Tells(Verdict(u, I, E), t)
  PROVE  Verdict(u, I, E) = Verdict(t, I, E)
<1> DEFINE r == Verdict(u, I, E)
<1>1. t # None /\ ~(t \in I /\ t \in E)
  BY SidesAreDisjoint
<1>2. \/ r.internal_transaction = t /\ t \in Peers(u, I) /\ t \in I
      \/ r.external_transaction = t /\ t \in Peers(u, E) /\ t \in E
  BY <1>1, VerdictTells DEF Tells, Peers
<1>3. BuildKey(t) = BuildKey(u)
  BY <1>2 DEF Peers
<1>4. /\ Peers(t, I) = Peers(u, I) /\ Peers(t, E) = Peers(u, E)
      /\ Ambiguous(t, I, E) <=> Ambiguous(u, I, E)
  BY <1>3, PeersProperties, AmbiguousByKey
<1>5. CASE Ambiguous(u, I, E)
  <2>1. r = Duplicate(u)
    BY <1>5 DEF Verdict
  <2>2. /\ Duplicate(u).internal_transaction \in {u, None}
        /\ Duplicate(u).external_transaction \in {u, None}
    BY DEF Duplicate
  <2>3. t = u
    BY <2>1, <2>2, <1>1, <1>2
  <2> QED BY <2>3
<1>6. CASE ~Ambiguous(u, I, E)
  <2>1. \A x, y : x \in Peers(u, I) /\ y \in Peers(u, I) => x = y
    BY <1>6 DEF Ambiguous
  <2>2. \A x, y : x \in Peers(u, E) /\ y \in Peers(u, E) => x = y
    BY <1>6 DEF Ambiguous
  <2>3. (u \in I => u \in Peers(u, I)) /\ (u \in E => u \in Peers(u, E))
    BY DEF Peers
  <2>4. CASE Peers(u, E) = {}
    <3>1. u = t
      BY <2>1, <2>3, <2>4, <1>2
    <3> QED BY <3>1
  <2>5. CASE Peers(u, E) # {} /\ Peers(u, I) = {}
    <3>1. u = t
      BY <2>2, <2>3, <2>5, <1>2
    <3> QED BY <3>1
  <2>6. CASE Peers(u, E) # {} /\ Peers(u, I) # {}
    BY <2>6, <1>4, <1>6 DEF Verdict
  <2> QED BY <2>4, <2>5, <2>6
<1> QED BY <1>5, <1>6

\* What the policy asks for is a report of every record, once: a list of the
\* expected results in which none comes twice drops, repeats and invents no
\* record.
THEOREM ExpectedReportsOnce ==
  ASSUME NEW I, NEW E, BothSides(I, E), NEW s \in Seq(ReconciliationResult),
         Range(s) = Expected(I, E), IsInjective(s)
  PROVE  ReportsOnce(s, I, E)
<1>1. ASSUME NEW t \in I \union E
      PROVE  \E k \in DOMAIN s : \A l \in DOMAIN s : Tells(s[l], t) <=> l = k
  <2>1. PICK k \in DOMAIN s : s[k] = Verdict(t, I, E)
    BY DEF Expected, Range
  <2>2. Tells(s[k], t)
    BY <2>1, VerdictTells DEF Tells
  <2>3. ASSUME NEW l \in DOMAIN s, Tells(s[l], t)
        PROVE  l = k
    <3>1. PICK u \in I \union E : s[l] = Verdict(u, I, E)
      BY DEF Expected, Range
    <3>2. s[l] = s[k]
      BY <3>1, <2>1, <2>3, VerdictIsOwn
    <3> QED BY <3>2 DEF IsInjective
  <2> QED BY <2>2, <2>3
<1>2. ASSUME NEW k \in DOMAIN s
      PROVE  \E t \in I \union E : Tells(s[k], t)
  <2>1. PICK u \in I \union E : s[k] = Verdict(u, I, E)
    BY DEF Expected, Range
  <2> QED BY <2>1, VerdictTells DEF Tells
<1> QED BY <1>1, <1>2 DEF ReportsOnce

-----------------------------------------------------------------------------
(* The composite key. *)

Join(a, b) == a \o <<Pipe>> \o b

LEMMA TextConcatAssociative ==
  ASSUME NEW s \in Seq(Nat), NEW t \in Seq(Nat), NEW u \in Seq(Nat)
  PROVE  (s \o t) \o u = s \o (t \o u)
BY ConcatAssociative

Glued(v, p, n, d) == v \o p \o n \o p \o d
Nested(v, p, n, d) == v \o p \o (n \o p \o d)

\* The joins of a three-field key regroup as a field, then the rest of the key.
LEMMA FieldsAssociate ==
  ASSUME NEW v \in Seq(Nat), NEW p \in Seq(Nat), NEW n \in Seq(Nat), NEW d \in Seq(Nat)
  PROVE  Glued(v, p, n, d) = Nested(v, p, n, d)
<1>1. \A x, y, z \in Seq(Nat) : (x \o y) \o z = x \o (y \o z)
  BY TextConcatAssociative
<1>2. v \o p \in Seq(Nat) /\ n \o p \in Seq(Nat)
  BY ConcatProperties
<1>3. ((v \o p) \o n) \o p = (v \o p) \o (n \o p)
  BY <1>1, <1>2, SMTT(30)
<1>4. ((v \o p) \o (n \o p)) \o d = (v \o p) \o ((n \o p) \o d)
  BY <1>1, <1>2, SMTT(30)
<1> QED BY <1>3, <1>4 DEF Glued, Nested

LEMMA GluedIsJoined ==
  ASSUME NEW v \in Seq(Nat), NEW n \in Seq(Nat), NEW d \in Seq(Nat)
  PROVE  Join(n, d) \in Seq(Nat) /\ Glued(v, <<Pipe>>, n, d) = Join(v, Join(n, d))
<1>1. <<Pipe>> \in Seq(Nat)
  BY DEF Pipe
<1>2. Glued(v, <<Pipe>>, n, d) = Nested(v, <<Pipe>>, n, d)
  BY <1>1, FieldsAssociate
<1>3. Nested(v, <<Pipe>>, n, d) = Join(v, Join(n, d))
  BY DEF Nested, Join
<1>4. n \o <<Pipe>> \in Seq(Nat)
  BY <1>1, ConcatProperties
<1>5. (n \o <<Pipe>>) \o d \in Seq(Nat)
  BY <1>4, ConcatProperties
<1>6. Join(n, d) \in Seq(Nat)
  BY <1>5 DEF Join
<1> QED BY <1>2, <1>3, <1>6

\* A composite key is the vendor joined to the rest of the key.
LEMMA KeyIsJoined ==
  ASSUME Strategy = "COMPOSITE_KEY", NEW r \in Transaction
  PROVE  /\ r.vendor_id \in Seq(Nat) /\ r.invoice_number \in Seq(Nat)
         /\ r.transaction_date \in Seq(Nat)
         /\ Join(r.invoice_number, r.transaction_date) \in Seq(Nat)
         /\ BuildKey(r) = Join(r.vendor_id, Join(r.invoice_number, r.transaction_date))
<1>1. /\ r.vendor_id \in Seq(Nat) /\ r.invoice_number \in Seq(Nat)
      /\ r.transaction_date \in Seq(Nat)
  BY DEF Transaction, Text
<1>2. BuildKey(r) = Glued(r.vendor_id, <<Pipe>>, r.invoice_number, r.transaction_date)
  BY DEF BuildKey, Glued
<1> QED BY <1>1, <1>2, GluedIsJoined

LEMMA ConcatPositions ==
  ASSUME NEW a \in Seq(Nat), NEW b \in Seq(Nat)
  PROVE  /\ a \o b \in Seq(Nat)
         /\ Len(a \o b) = Len(a) + Len(b)
         /\ \A k \in 1..Len(a) : (a \o b)[k] = a[k]
         /\ \A k \in 1..Len(b) : (a \o b)[Len(a) + k] = b[k]
<1> DEFINE c == a \o b
<1>1. /\ c \in Seq(Nat) /\ Len(c) = Len(a) + Len(b)
      /\ \A k \in 1..(Len(a) + Len(b)) : c[k] = IF k <= Len(a) THEN a[k] ELSE b[k - Len(a)]
  BY ConcatProperties
<1>2. Len(a) \in Nat /\ Len(b) \in Nat
  BY LenProperties
<1> HIDE DEF c
<1>3. ASSUME NEW k \in 1..Len(a) PROVE c[k] = a[k]
  BY <1>1, <1>2
<1>4. ASSUME NEW k \in 1..Len(b) PROVE c[Len(a) + k] = b[k]
  <2>1. /\ Len(a) + k \in 1..(Len(a) + Len(b)) /\ ~(Len(a) + k <= Len(a))
        /\ (Len(a) + k) - Len(a) = k
    BY <1>2
  <2> QED BY <2>1, <1>1
<1> QED BY <1>1, <1>3, <1>4 DEF c

LEMMA JoinPositions ==
  ASSUME NEW a \in Seq(Nat), NEW b \in Seq(Nat)
  PROVE  /\ Len(Join(a, b)) = Len(a) + 1 + Len(b)
         /\ \A k \in 1..Len(a) : Join(a, b)[k] = a[k]
         /\ Join(a, b)[Len(a) + 1] = Pipe
         /\ \A k \in 1..Len(b) : Join(a, b)[Len(a) + 1 + k] = b[k]
<1> DEFINE p == <<Pipe>>
           y == a \o p
           x == y \o b
<1>1. p \in Seq(Nat) /\ Len(p) = 1 /\ p[1] = Pipe
  BY DEF Pipe
<1>2. Len(a) \in Nat /\ Len(b) \in Nat
  BY LenProperties
<1>3. x = Join(a, b)
  BY DEF Join
<1> HIDE DEF p
<1>4. /\ y \in Seq(Nat) /\ Len(y) = Len(a) + Len(p)
      /\ \A k \in 1..Len(a) : y[k] = a[k]
      /\ \A k \in 1..Len(p) : y[Len(a) + k] = p[k]
  BY <1>1, ConcatPositions
<1> HIDE DEF y
<1>5. /\ Len(x) = Len(y) + Len(b)
      /\ \A k \in 1..Len(y) : x[k] = y[k]
      /\ \A k \in 1..Len(b) : x[Len(y) + k] = b[k]
  BY <1>4, ConcatPositions
<1> HIDE DEF x
<1>6. Len(y) = Len(a) + 1 /\ 1 \in 1..Len(p) /\ y[Len(a) + 1] = Pipe
  BY <1>1, <1>4
<1>7. \A k \in 1..Len(a) : k \in 1..Len(y)
  BY <1>2, <1>6
<1>8. Len(a) + 1 \in 1..Len(y)
  BY <1>2, <1>6
<1>9. /\ \A k \in 1..Len(a) : x[k] = a[k]
      /\ x[Len(a) + 1] = Pipe
  BY <1>4, <1>5, <1>6, <1>7, <1>8
<1>10. Len(x) = Len(a) + 1 + Len(b) /\ \A k \in 1..Len(b) : x[Len(a) + 1 + k] = b[k]
  BY <1>5, <1>6
<1> QED BY <1>3, <1>9, <1>10

\* A text without the delimiter can be told from what follows the delimiter.
LEMMA SplitAtPipe ==
  ASSUME NEW a \in Seq(Nat), NEW b \in Seq(Nat), NEW c \in Seq(Nat), NEW d \in Seq(Nat),
         Pipe \notin Range(a), Pipe \notin Range(c), Join(a, b) = Join(c, d)
  PROVE  a = c /\ b = d
<1> DEFINE x == Join(a, b)
<1>1. /\ Len(x) = Len(a) + 1 + Len(b)
      /\ \A k \in 1..Len(a) : x[k] = a[k]
      /\ x[Len(a) + 1] = Pipe
      /\ \A k \in 1..Len(b) : x[Len(a) + 1 + k] = b[k]
  BY JoinPositions
<1>2. /\ Len(x) = Len(c) + 1 + Len(d)
      /\ \A k \in 1..Len(c) : x[k] = c[k]
      /\ x[Len(c) + 1] = Pipe
      /\ \A k \in 1..Len(d) : x[Len(c) + 1 + k] = d[k]
  <2>1. x = Join(c, d)
    OBVIOUS
  <2> HIDE DEF x
  <2> QED BY <2>1, JoinPositions
<1>3. /\ Len(a) \in Nat /\ Len(b) \in Nat /\ Len(c) \in Nat /\ Len(d) \in Nat
      /\ DOMAIN a = 1..Len(a) /\ DOMAIN c = 1..Len(c)
  BY LenProperties
<1> HIDE DEF x
<1>4. /\ \A k \in 1..Len(a) : x[k] # Pipe
      /\ \A k \in 1..Len(c) : x[k] # Pipe
  BY <1>1, <1>2, <1>3 DEF Range
<1>5. Len(a) = Len(c)
  <2>1. CASE Len(a) < Len(c)
    <3>1. Len(a) + 1 \in 1..Len(c)
      BY <2>1, <1>3
    <3> QED BY <3>1, <1>1, <1>4
  <2>2. CASE Len(c) < Len(a)
    <3>1. Len(c) + 1 \in 1..Len(a)
      BY <2>2, <1>3
    <3> QED BY <3>1, <1>2, <1>4
  <2>3. Len(a) \in Nat /\ Len(c) \in Nat
    BY <1>3
  <2>4. Len(a) = Len(c) \/ Len(a) < Len(c) \/ Len(c) < Len(a)
    BY <2>3
  <2> QED BY <2>1, <2>2, <2>4
<1>6. a = c
  BY <1>1, <1>2, <1>5, SeqEqual
<1>7. Len(b) = Len(d)
  BY <1>1, <1>2, <1>3, <1>5
<1>8. b = d
  BY <1>1, <1>2, <1>5, <1>7, SeqEqual
<1> QED BY <1>6, <1>8

\* Without the delimiter in their texts, records share a composite key exactly
\* when they agree in vendor, invoice and date (match_classifier.build_key).
THEOREM CompositeKeyIsExact ==
  ASSUME Strategy = "COMPOSITE_KEY", NEW t \in Transaction, NEW u \in Transaction,
         DelimiterFree(t), DelimiterFree(u), BuildKey(t) = BuildKey(u)
  PROVE  /\ t.vendor_id = u.vendor_id
         /\ t.invoice_number = u.invoice_number
         /\ t.transaction_date = u.transaction_date
<1> DEFINE rest(r) == Join(r.invoice_number, r.transaction_date)
<1>1. \A r \in Transaction :
        /\ r.vendor_id \in Seq(Nat) /\ r.invoice_number \in Seq(Nat)
        /\ r.transaction_date \in Seq(Nat) /\ rest(r) \in Seq(Nat)
        /\ BuildKey(r) = Join(r.vendor_id, rest(r))
  BY KeyIsJoined
<1>2. /\ Pipe \notin Range(t.vendor_id) /\ Pipe \notin Range(u.vendor_id)
      /\ Pipe \notin Range(t.invoice_number) /\ Pipe \notin Range(u.invoice_number)
  BY DEF DelimiterFree
<1>3. Join(t.vendor_id, rest(t)) = Join(u.vendor_id, rest(u))
  BY <1>1
<1> HIDE DEF rest
<1>4. t.vendor_id = u.vendor_id /\ rest(t) = rest(u)
  BY <1>1, <1>2, <1>3, SplitAtPipe
<1>5. Join(t.invoice_number, t.transaction_date) = Join(u.invoice_number, u.transaction_date)
  BY <1>4 DEF rest
<1>6. t.invoice_number = u.invoice_number /\ t.transaction_date = u.transaction_date
  BY <1>1, <1>2, <1>5, SplitAtPipe
<1> QED BY <1>4, <1>6

\* A result with two sides is a classified pair of records with one key.
LEMMA PairedVerdict ==
  ASSUME NEW I, NEW E, NEW t \in I \union E,
         Verdict(t, I, E).internal_transaction # None,
         Verdict(t, I, E).external_transaction # None
  PROVE  \E i \in Peers(t, I), e \in Peers(t, E) : Verdict(t, I, E) = ClassifyMatch(i, e)
<1>1. ~Ambiguous(t, I, E)
  <2> SUFFICES ASSUME Ambiguous(t, I, E) PROVE FALSE
    OBVIOUS
  <2>1. Verdict(t, I, E) = Duplicate(t)
    BY DEF Verdict
  <2>2. \/ Duplicate(t).internal_transaction = None
        \/ Duplicate(t).external_transaction = None
    BY DEF Duplicate
  <2> QED BY <2>1, <2>2
<1>2. Peers(t, E) # {}
  <2> SUFFICES ASSUME Peers(t, E) = {} PROVE FALSE
    OBVIOUS
  <2>1. Verdict(t, I, E) = MissingExternal(t)
    BY <1>1 DEF Verdict
  <2>2. MissingExternal(t).external_transaction = None
    BY DEF MissingExternal
  <2> QED BY <2>1, <2>2
<1>3. Peers(t, I) # {}
  <2> SUFFICES ASSUME Peers(t, I) = {} PROVE FALSE
    OBVIOUS
  <2>1. Verdict(t, I, E) = MissingInternal(t)
    BY <1>1, <1>2 DEF Verdict
  <2>2. MissingInternal(t).internal_transaction = None
    BY DEF MissingInternal
  <2> QED BY <2>1, <2>2
<1>4. OneOf(Peers(t, I)) \in Peers(t, I) /\ OneOf(Peers(t, E)) \in Peers(t, E)
  BY <1>2, <1>3 DEF OneOf
<1>5. Verdict(t, I, E) = ClassifyMatch(OneOf(Peers(t, I)), OneOf(Peers(t, E)))
  BY <1>1, <1>2, <1>3 DEF Verdict
<1> QED BY <1>4, <1>5

-----------------------------------------------------------------------------
(* The index. *)

\* Appending a new record to a list without repetitions.
LEMMA InjectiveAppend ==
  ASSUME NEW s \in Seq(Transaction), IsInjective(s), NEW t \in Transaction, t \notin Range(s)
  PROVE  /\ Append(s, t) \in Seq(Transaction)
         /\ IsInjective(Append(s, t))
         /\ Range(Append(s, t)) = Range(s) \union {t}
<1> DEFINE u == <<t>>
<1>1. Append(s, t) = s \o u
  BY AppendIsConcat
<1>2. u \in Seq(Transaction) /\ IsInjective(u) /\ Range(u) = {t}
  BY Singleton
<1> HIDE DEF u
<1>3. Range(s) \intersect Range(u) = {}
  BY <1>2
<1>4. /\ s \o u \in Seq(Transaction)
      /\ IsInjective(s \o u)
      /\ Range(s \o u) = Range(s) \union Range(u)
  BY <1>2, <1>3, InjectiveConcat
<1> QED BY <1>1, <1>2, <1>4

\* The group of a key, whether the index has the key or not.
LEMMA GroupOfIndexed ==
  ASSUME NEW by_key, NEW s, NEW n, NEW key, Indexed(by_key, s, n)
  PROVE  /\ Range(GroupOf(by_key, key)) = {s[k] : k \in {l \in 1..n : BuildKey(s[l]) = key}}
         /\ IsInjective(GroupOf(by_key, key))
<1>1. CASE key \in DOMAIN by_key
  BY <1>1 DEF Indexed, GroupOf
<1>2. CASE key \notin DOMAIN by_key
  <2>1. GroupOf(by_key, key) = <<>>
    BY <1>2 DEF GroupOf
  <2>2. {l \in 1..n : BuildKey(s[l]) = key} = {}
    BY <1>2 DEF Indexed
  <2> QED BY <2>1, <2>2 DEF Range, IsInjective
<1> QED BY <1>1, <1>2

\* One iteration of an indexing loop.
LEMMA IndexOneMore ==
  ASSUME NEW s \in Seq(Transaction), IsInjective(s), NEW n \in Nat, n < Len(s), NEW by_key,
         Indexed(by_key, s, n), \A key \in DOMAIN by_key : by_key[key] \in Seq(Transaction)
  PROVE  /\ Indexed(AddToIndex(by_key, s[n + 1]), s, n + 1)
         /\ DOMAIN AddToIndex(by_key, s[n + 1]) = DOMAIN by_key \union {BuildKey(s[n + 1])}
         /\ \A key \in DOMAIN AddToIndex(by_key, s[n + 1]) :
              AddToIndex(by_key, s[n + 1])[key] \in Seq(Transaction)
<1> DEFINE t == s[n + 1]
           new == AddToIndex(by_key, t)
           At(key, m) == {s[k] : k \in {l \in 1..m : BuildKey(s[l]) = key}}
<1>1. /\ 1..(n + 1) = (1..n) \union {n + 1} /\ n + 1 \notin 1..n
      /\ n + 1 \in DOMAIN s /\ 1..n \subseteq DOMAIN s
      /\ t \in Transaction
  <2>1. DOMAIN s = 1..Len(s) /\ Len(s) \in Nat
    BY LenProperties
  <2>2. n + 1 \in 1..Len(s)
    BY <2>1
  <2>3. t \in Transaction
    BY <2>2, ElementOfSeq
  <2> QED BY <2>1, <2>2, <2>3
<1>2. t \notin {s[k] : k \in 1..n}
  BY <1>1 DEF IsInjective
<1>3. GroupOf(by_key, BuildKey(t)) \in Seq(Transaction)
  BY DEF GroupOf
<1>4. /\ Range(GroupOf(by_key, BuildKey(t))) = At(BuildKey(t), n)
      /\ IsInjective(GroupOf(by_key, BuildKey(t)))
  BY GroupOfIndexed
<1>5. /\ DOMAIN new = DOMAIN by_key \union {BuildKey(t)}
      /\ new[BuildKey(t)] = Append(GroupOf(by_key, BuildKey(t)), t)
      /\ \A key \in DOMAIN by_key : key # BuildKey(t) => new[key] = by_key[key]
  BY DEF AddToIndex
<1>6. t \notin Range(GroupOf(by_key, BuildKey(t)))
  BY <1>4, <1>2
<1>7. /\ new[BuildKey(t)] \in Seq(Transaction)
      /\ IsInjective(new[BuildKey(t)])
      /\ Range(new[BuildKey(t)]) = At(BuildKey(t), n) \union {t}
  BY <1>1, <1>3, <1>4, <1>5, <1>6, InjectiveAppend
<1>8. /\ At(BuildKey(t), n + 1) = At(BuildKey(t), n) \union {t}
      /\ \A key : key # BuildKey(t) => At(key, n + 1) = At(key, n)
  BY <1>1
<1>9. DOMAIN new = {BuildKey(s[k]) : k \in 1..(n + 1)}
  BY <1>1, <1>5 DEF Indexed
<1> HIDE DEF t, new, At
<1>10. ASSUME NEW key \in DOMAIN new
       PROVE  /\ new[key] \in Seq(Transaction)
              /\ Range(new[key]) = At(key, n + 1)
              /\ IsInjective(new[key])
  <2>1. CASE key = BuildKey(t)
    BY <2>1, <1>7, <1>8
  <2>2. CASE key # BuildKey(t)
    <3>1. key \in DOMAIN by_key /\ new[key] = by_key[key] /\ At(key, n + 1) = At(key, n)
      BY <2>2, <1>5, <1>8
    <3>2. Range(by_key[key]) = At(key, n) /\ IsInjective(by_key[key])
      BY <3>1 DEF Indexed, At
    <3> QED BY <3>1, <3>2
  <2> QED BY <2>1, <2>2
<1> QED BY <1>5, <1>9, <1>10 DEF Indexed, At, t, new

-----------------------------------------------------------------------------
(* One key. *)

LEMMA LongListHasTwo ==
  ASSUME NEW g \in Seq(Transaction), IsInjective(g)
  PROVE  /\ Len(g) > 1 => \E u, v \in Range(g) : u # v
         /\ Len(g) = 1 => Range(g) = {g[1]} /\ g[1] \in Transaction
         /\ Range(g) # {} /\ ~(Len(g) > 1) => Len(g) = 1
         /\ Len(g) # 1 /\ ~(Len(g) > 1) => Range(g) = {}
<1>1. Len(g) \in Nat /\ DOMAIN g = 1..Len(g)
  BY LenProperties
<1>2. Len(g) > 1 => \E u, v \in Range(g) : u # v
  <2>1. SUFFICES ASSUME Len(g) > 1 PROVE \E u, v \in Range(g) : u # v
    OBVIOUS
  <2>2. 1 \in DOMAIN g /\ 2 \in DOMAIN g
    BY <1>1, <2>1
  <2>3. g[1] # g[2] /\ g[1] \in Range(g) /\ g[2] \in Range(g)
    BY <2>2 DEF IsInjective, Range
  <2> QED BY <2>3
<1>3. Len(g) = 1 => Range(g) = {g[1]} /\ g[1] \in Transaction
  <2> SUFFICES ASSUME Len(g) = 1 PROVE Range(g) = {g[1]} /\ g[1] \in Transaction
    OBVIOUS
  <2>1. DOMAIN g = {1} /\ 1 \in 1..Len(g)
    BY <1>1
  <2>2. g[1] \in Transaction
    BY <2>1, ElementOfSeq
  <2> QED BY <2>1, <2>2 DEF Range
<1>4. Len(g) = 0 => Range(g) = {}
  BY <1>1 DEF Range
<1>5. Len(g) = 0 \/ Len(g) = 1 \/ Len(g) > 1
  BY <1>1
<1> QED BY <1>2, <1>3, <1>4, <1>5

\* What is reported for a key are the verdicts on its records, each once.
LEMMA GroupResultsProperties ==
  ASSUME NEW I, NEW E, BothSides(I, E), NEW key,
         NEW g \in Seq(Transaction), NEW h \in Seq(Transaction),
         IsInjective(g), IsInjective(h),
         Range(g) = {t \in I : BuildKey(t) = key}, Range(h) = {t \in E : BuildKey(t) = key},
         Range(g) # {} \/ Range(h) # {}
  PROVE  /\ GroupResults(g, h) \in Seq(ReconciliationResult)
         /\ IsInjective(GroupResults(g, h))
         /\ Range(GroupResults(g, h)) = {Verdict(t, I, E) : t \in Range(g) \union Range(h)}
<1>1. \A t \in Range(g) \union Range(h) : Peers(t, I) = Range(g) /\ Peers(t, E) = Range(h)
  BY DEF Peers
<1>2. /\ Len(g) > 1 => \E u, v \in Range(g) : u # v
      /\ Len(g) = 1 => Range(g) = {g[1]} /\ g[1] \in Transaction
      /\ Range(g) # {} /\ ~(Len(g) > 1) => Len(g) = 1
      /\ Len(g) # 1 /\ ~(Len(g) > 1) => Range(g) = {}
  BY LongListHasTwo
<1>3. /\ Len(h) > 1 => \E u, v \in Range(h) : u # v
      /\ Len(h) = 1 => Range(h) = {h[1]} /\ h[1] \in Transaction
      /\ Range(h) # {} /\ ~(Len(h) > 1) => Len(h) = 1
      /\ Len(h) # 1 /\ ~(Len(h) > 1) => Range(h) = {}
  BY LongListHasTwo
<1>4. CASE Len(g) > 1 \/ Len(h) > 1
  <2>1. \A t \in Range(g) \union Range(h) : Verdict(t, I, E) = Duplicate(t)
    BY <1>1, <1>2, <1>3, <1>4 DEF Verdict, Ambiguous
  <2>2. GroupResults(g, h) = Duplicates(g) \o Duplicates(h)
    BY <1>4 DEF GroupResults
  <2>3. /\ Duplicates(g) \in Seq(ReconciliationResult) /\ IsInjective(Duplicates(g))
        /\ Range(Duplicates(g)) = {Duplicate(t) : t \in Range(g)}
        /\ Duplicates(h) \in Seq(ReconciliationResult) /\ IsInjective(Duplicates(h))
        /\ Range(Duplicates(h)) = {Duplicate(t) : t \in Range(h)}
    BY DuplicatesProperties
  <2>4. \A t \in Range(g), u \in Range(h) : Duplicate(t) # Duplicate(u)
    <3> SUFFICES ASSUME NEW t \in Range(g), NEW u \in Range(h)
                 PROVE  Duplicate(t) # Duplicate(u)
      OBVIOUS
    <3>1. t.source = "INTERNAL" /\ u.source = "EXTERNAL" /\ t # None
      BY SidesAreDisjoint DEF BothSides
    <3>2. Duplicate(t).internal_transaction = t /\ Duplicate(u).internal_transaction = None
      BY <3>1 DEF Duplicate
    <3> QED BY <3>1, <3>2
  <2>5. Range(Duplicates(g)) \intersect Range(Duplicates(h)) = {}
    BY <2>3, <2>4
  <2>6. /\ GroupResults(g, h) \in Seq(ReconciliationResult)
        /\ IsInjective(GroupResults(g, h))
        /\ Range(GroupResults(g, h)) = Range(Duplicates(g)) \union Range(Duplicates(h))
    <3> DEFINE a == Duplicates(g)
               b == Duplicates(h)
    <3>1. /\ a \in Seq(ReconciliationResult) /\ b \in Seq(ReconciliationResult)
          /\ IsInjective(a) /\ IsInjective(b) /\ Range(a) \intersect Range(b) = {}
          /\ GroupResults(g, h) = a \o b
      BY <2>2, <2>3, <2>5
    <3> HIDE DEF a, b
    <3>2. /\ a \o b \in Seq(ReconciliationResult) /\ IsInjective(a \o b)
          /\ Range(a \o b) = Range(a) \union Range(b)
      BY <3>1, InjectiveConcat
    <3> QED BY <3>1, <3>2 DEF a, b
  <2> QED BY <2>1, <2>3, <2>6
<1>5. CASE ~(Len(g) > 1) /\ ~(Len(h) > 1)
  <2>1. \A t \in Range(g) \union Range(h) : ~Ambiguous(t, I, E)
    BY <1>1, <1>2, <1>3, <1>5 DEF Ambiguous
  <2>2. \E r \in ReconciliationResult :
          /\ GroupResults(g, h) = <<r>>
          /\ \A t \in Range(g) \union Range(h) : Verdict(t, I, E) = r
    <3>1. CASE Len(g) = 1 /\ Len(h) = 1
      <4>1. GroupResults(g, h) = <<ClassifyMatch(g[1], h[1])>>
        BY <3>1, <1>5 DEF GroupResults
      <4>2. OneOf(Range(g)) = g[1] /\ OneOf(Range(h)) = h[1]
        BY <3>1, <1>2, <1>3 DEF OneOf
      <4>3. \A t \in Range(g) \union Range(h) : Verdict(t, I, E) = ClassifyMatch(g[1], h[1])
        <5> SUFFICES ASSUME NEW t \in Range(g) \union Range(h)
                     PROVE  Verdict(t, I, E) = ClassifyMatch(g[1], h[1])
          OBVIOUS
        <5>1. Peers(t, I) = Range(g) /\ Peers(t, E) = Range(h) /\ ~Ambiguous(t, I, E)
          BY <1>1, <2>1
        <5>2. Range(g) # {} /\ Range(h) # {}
          BY <3>1, <1>2, <1>3
        <5>3. Verdict(t, I, E) = ClassifyMatch(OneOf(Range(g)), OneOf(Range(h)))
          BY <5>1, <5>2 DEF Verdict
        <5> QED BY <5>3, <4>2
      <4>4. ClassifyMatch(g[1], h[1]) \in ReconciliationResult
        BY <3>1, <1>2, <1>3, ClassifyMatchType
      <4> QED BY <4>1, <4>3, <4>4
    <3>2. CASE Len(g) = 1 /\ Len(h) # 1
      <4>1. GroupResults(g, h) = <<MissingExternal(g[1])>>
        BY <3>2, <1>5 DEF GroupResults
      <4>2. \A t \in Range(g) \union Range(h) : Verdict(t, I, E) = MissingExternal(g[1])
        BY <3>2, <1>1, <1>2, <1>3, <1>5, <2>1 DEF Verdict
      <4>3. MissingExternal(g[1]) \in ReconciliationResult
        BY <3>2, <1>2, LoneResultTypes
      <4> QED BY <4>1, <4>2, <4>3
    <3>3. CASE Len(g) # 1
      <4>1. Range(g) = {} /\ Len(h) = 1
        BY <3>3, <1>2, <1>3, <1>5
      <4>2. GroupResults(g, h) = <<MissingInternal(h[1])>>
        BY <3>3, <4>1, <1>5 DEF GroupResults
      <4>3. \A t \in Range(g) \union Range(h) : Verdict(t, I, E) = MissingInternal(h[1])
        BY <4>1, <1>1, <1>3, <2>1 DEF Verdict
      <4>4. MissingInternal(h[1]) \in ReconciliationResult
        BY <4>1, <1>3, LoneResultTypes
      <4> QED BY <4>2, <4>3, <4>4
    <3> QED BY <3>1, <3>2, <3>3
  <2>3. PICK r \in ReconciliationResult :
          /\ GroupResults(g, h) = <<r>>
          /\ \A t \in Range(g) \union Range(h) : Verdict(t, I, E) = r
    BY <2>2
  <2>4. <<r>> \in Seq(ReconciliationResult) /\ IsInjective(<<r>>) /\ Range(<<r>>) = {r}
    BY Singleton
  <2>5. {Verdict(t, I, E) : t \in Range(g) \union Range(h)} = {r}
    BY <2>3
  <2> QED BY <2>3, <2>4, <2>5
<1> QED BY <1>4, <1>5

-----------------------------------------------------------------------------
(* The invariant. *)

LEMMA ListsHeld ==
  ASSUME TypeOK
  PROVE  /\ internal \in Seq(Transaction) /\ IsInjective(internal)
         /\ external \in Seq(Transaction) /\ IsInjective(external)
         /\ BothSides(Range(internal), Range(external))
<1>1. internal \in ListsOf("INTERNAL") /\ external \in ListsOf("EXTERNAL")
  BY DEF TypeOK
<1>2. /\ internal \in Seq(Transaction) /\ IsInjective(internal)
      /\ Range(internal) \subseteq Transaction
      /\ \A t \in Range(internal) : t.source = "INTERNAL"
  BY <1>1, ListsOfProperties
<1>3. /\ external \in Seq(Transaction) /\ IsInjective(external)
      /\ Range(external) \subseteq Transaction
      /\ \A t \in Range(external) : t.source = "EXTERNAL"
  BY <1>1, ListsOfProperties
<1> QED BY <1>2, <1>3 DEF BothSides

LEMMA InitEstablishesIInv == Init => IInv
<1> SUFFICES ASSUME Init PROVE IInv
  OBVIOUS
<1>1. internal \in ListsOf("INTERNAL") /\ external \in ListsOf("EXTERNAL")
  BY ListsAssumption DEF Init
<1>2. Len(internal) \in Nat /\ Len(external) \in Nat
  BY <1>1, ListsOfProperties, LenProperties
<1>3. TypeOK
  BY <1>1, <1>2 DEF TypeOK, Init
<1>4. 1..0 = {}
  OBVIOUS
<1>5. /\ Indexed(internal_by_key, internal, n_internal)
      /\ Indexed(external_by_key, external, n_external)
  BY <1>4 DEF Indexed, Init
<1>6. VisitedSoFar
  BY DEF VisitedSoFar, Init
<1> QED BY <1>3, <1>5, <1>6 DEF IInv

\* The indexing loops.
LEMMA IndexInternalKeepsIInv ==
  ASSUME IInv, IndexInternal
  PROVE  IInv'
<1>1. TypeOK /\ internal \in Seq(Transaction) /\ IsInjective(internal)
  BY ListsHeld DEF IInv
<1>2. /\ n_internal \in Nat /\ n_internal < Len(internal)
      /\ Indexed(internal_by_key, internal, n_internal)
      /\ \A key \in DOMAIN internal_by_key : internal_by_key[key] \in Seq(Transaction)
  BY <1>1 DEF IInv, TypeOK, IndexInternal
<1> DEFINE t == internal[n_internal + 1]
<1>3. /\ Indexed(internal_by_key', internal, n_internal + 1)
      /\ DOMAIN internal_by_key' = DOMAIN internal_by_key \union {BuildKey(t)}
      /\ \A key \in DOMAIN internal_by_key' : internal_by_key'[key] \in Seq(Transaction)
  BY <1>1, <1>2, IndexOneMore DEF IndexInternal
<1>4. n_internal + 1 \in 0..Len(internal) /\ BuildKey(t) \in Text
  <2>1. Len(internal) \in Nat
    BY <1>1, LenProperties
  <2>2. n_internal + 1 \in 1..Len(internal) /\ n_internal + 1 \in 0..Len(internal)
    BY <2>1, <1>2
  <2>3. t \in Transaction
    BY <1>1, <2>2, ElementOfSeq
  <2> QED BY <2>2, <2>3, BuildKeyType
<1> HIDE DEF t
<1>5. TypeOK'
  BY <1>1, <1>3, <1>4 DEF TypeOK, IndexInternal, lists
<1>6. Indexed(internal_by_key, internal, n_internal)'
  BY <1>3 DEF IndexInternal, lists
<1>7. Indexed(external_by_key, external, n_external)'
  BY DEF IInv, IndexInternal, lists, Indexed
<1>8. VisitedSoFar'
  BY DEF IInv, VisitedSoFar, IndexInternal, lists
<1> QED BY <1>5, <1>6, <1>7, <1>8 DEF IInv

LEMMA IndexExternalKeepsIInv ==
  ASSUME IInv, IndexExternal
  PROVE  IInv'
<1>1. TypeOK /\ external \in Seq(Transaction) /\ IsInjective(external)
  BY ListsHeld DEF IInv
<1>2. /\ n_external \in Nat /\ n_external < Len(external)
      /\ Indexed(external_by_key, external, n_external)
      /\ \A key \in DOMAIN external_by_key : external_by_key[key] \in Seq(Transaction)
  BY <1>1 DEF IInv, TypeOK, IndexExternal
<1> DEFINE t == external[n_external + 1]
<1>3. /\ Indexed(external_by_key', external, n_external + 1)
      /\ DOMAIN external_by_key' = DOMAIN external_by_key \union {BuildKey(t)}
      /\ \A key \in DOMAIN external_by_key' : external_by_key'[key] \in Seq(Transaction)
  BY <1>1, <1>2, IndexOneMore DEF IndexExternal
<1>4. n_external + 1 \in 0..Len(external) /\ BuildKey(t) \in Text
  <2>1. Len(external) \in Nat
    BY <1>1, LenProperties
  <2>2. n_external + 1 \in 1..Len(external) /\ n_external + 1 \in 0..Len(external)
    BY <2>1, <1>2
  <2>3. t \in Transaction
    BY <1>1, <2>2, ElementOfSeq
  <2> QED BY <2>2, <2>3, BuildKeyType
<1> HIDE DEF t
<1>5. TypeOK'
  BY <1>1, <1>3, <1>4 DEF TypeOK, IndexExternal, lists
<1>6. Indexed(external_by_key, external, n_external)'
  BY <1>3 DEF IndexExternal, lists
<1>7. Indexed(internal_by_key, internal, n_internal)'
  BY DEF IInv, IndexExternal, lists, Indexed
<1>8. VisitedSoFar'
  BY DEF IInv, VisitedSoFar, IndexExternal, lists
<1> QED BY <1>5, <1>6, <1>7, <1>8 DEF IInv

\* Every record's key is in one of the indexes once both are complete.
LEMMA KeysAreIndexed ==
  ASSUME IInv, n_internal = Len(internal), n_external = Len(external)
  PROVE  \A t \in Range(internal) \union Range(external) :
           BuildKey(t) \in DOMAIN internal_by_key \union DOMAIN external_by_key
<1>1. DOMAIN internal = 1..Len(internal) /\ DOMAIN external = 1..Len(external)
  BY ListsHeld, LenProperties DEF IInv
<1> QED BY <1>1 DEF IInv, Indexed, Range

LEMMA UniteKeysKeepsIInv ==
  ASSUME IInv, UniteKeys
  PROVE  IInv'
<1>1. TypeOK'
  BY DEF IInv, TypeOK, UniteKeys, lists, index
<1>2. /\ Indexed(internal_by_key, internal, n_internal)'
      /\ Indexed(external_by_key, external, n_external)'
  BY DEF IInv, UniteKeys, lists, index, Indexed
<1>3. Visited' = {}
  BY KeysAreIndexed DEF Visited, UniteKeys, lists
<1>4. results' = <<>> /\ Range(results') = {} /\ IsInjective(results')
  BY DEF IInv, VisitedSoFar, UniteKeys, Range, IsInjective
<1>5. VisitedSoFar'
  BY <1>3, <1>4 DEF VisitedSoFar, UniteKeys, lists, index
<1> QED BY <1>1, <1>2, <1>5 DEF IInv

LEMMA VisitKeyKeepsIInv ==
  ASSUME IInv, VisitKey
  PROVE  IInv'
<1> DEFINE I == Range(internal)
           E == Range(external)
<1>1. PICK key \in all_keys :
        /\ pc = "visit" /\ pc' = pc
        /\ all_keys' = all_keys \ {key}
        /\ results' = results \o GroupResults(GroupOf(internal_by_key, key),
                                              GroupOf(external_by_key, key))
        /\ UNCHANGED <<lists, index>>
  BY DEF VisitKey
<1> DEFINE g == GroupOf(internal_by_key, key)
           h == GroupOf(external_by_key, key)
           new == GroupResults(g, h)
<1>2. /\ TypeOK /\ BothSides(I, E)
      /\ DOMAIN internal = 1..Len(internal) /\ DOMAIN external = 1..Len(external)
  BY ListsHeld, LenProperties DEF IInv
<1>3. /\ n_internal = Len(internal) /\ n_external = Len(external)
      /\ key \in DOMAIN internal_by_key \union DOMAIN external_by_key
      /\ Range(results) = {Verdict(t, I, E) : t \in Visited}
      /\ IsInjective(results)
      /\ results \in Seq(ReconciliationResult)
  BY <1>1, <1>2 DEF IInv, VisitedSoFar, TypeOK
<1>4. g \in Seq(Transaction) /\ h \in Seq(Transaction)
  BY <1>2 DEF TypeOK, GroupOf
<1>5. /\ Range(g) = {internal[k] : k \in {l \in 1..n_internal : BuildKey(internal[l]) = key}}
      /\ Range(h) = {external[k] : k \in {l \in 1..n_external : BuildKey(external[l]) = key}}
      /\ IsInjective(g) /\ IsInjective(h)
  BY GroupOfIndexed DEF IInv
<1>6. /\ Range(g) = {t \in I : BuildKey(t) = key}
      /\ Range(h) = {t \in E : BuildKey(t) = key}
  BY <1>2, <1>3, <1>5 DEF Range
<1>7. Range(g) # {} \/ Range(h) # {}
  <2>1. \/ key \in {BuildKey(internal[k]) : k \in 1..n_internal}
        \/ key \in {BuildKey(external[k]) : k \in 1..n_external}
    BY <1>3 DEF IInv, Indexed
  <2> QED BY <2>1, <1>5
<1> HIDE DEF I, E, g, h
<1>8. /\ new \in Seq(ReconciliationResult)
      /\ IsInjective(new)
      /\ Range(new) = {Verdict(t, I, E) : t \in Range(g) \union Range(h)}
  <2>1. BothSides(I, E) /\ IsInjective(g) /\ IsInjective(h)
    BY <1>2, <1>5
  <2> QED BY <2>1, <1>4, <1>6, <1>7, GroupResultsProperties
<1>9. Visited' = Visited \union Range(g) \union Range(h)
  BY <1>1, <1>6 DEF Visited, I, E, lists
<1>10. Range(results) \intersect Range(new) = {}
  <2> SUFFICES ASSUME NEW t \in Visited, NEW u \in Range(g) \union Range(h),
                      Verdict(t, I, E) = Verdict(u, I, E)
               PROVE  FALSE
    BY <1>3, <1>8
  <2>1. t \in I \union E /\ u \in I \union E /\ BuildKey(t) # BuildKey(u)
    BY <1>6 DEF Visited, I, E
  <2> QED BY <2>1, <1>2, VerdictsSeparate
<1> HIDE DEF new
<1>11. /\ results' \in Seq(ReconciliationResult)
       /\ IsInjective(results')
       /\ Range(results') = Range(results) \union Range(new)
  <2>1. /\ results \o new \in Seq(ReconciliationResult)
        /\ IsInjective(results \o new)
        /\ Range(results \o new) = Range(results) \union Range(new)
    <3> DEFINE old == results
    <3>1. /\ old \in Seq(ReconciliationResult) /\ IsInjective(old)
          /\ Range(old) \intersect Range(new) = {}
      BY <1>3, <1>10
    <3>2. new \in Seq(ReconciliationResult) /\ IsInjective(new)
      BY <1>8
    <3> HIDE DEF old
    <3>3. /\ old \o new \in Seq(ReconciliationResult)
          /\ IsInjective(old \o new)
          /\ Range(old \o new) = Range(old) \union Range(new)
      BY <3>1, <3>2, InjectiveConcat
    <3> QED BY <3>3 DEF old
  <2>2. results' = results \o new
    BY <1>1 DEF new, g, h
  <2> QED BY <2>1, <2>2
<1>12. Range(results') = {Verdict(t, I, E) : t \in Visited'}
  BY <1>3, <1>8, <1>9, <1>11
<1>13. TypeOK'
  BY <1>1, <1>2, <1>11 DEF TypeOK, lists, index
<1>14. /\ Indexed(internal_by_key, internal, n_internal)'
       /\ Indexed(external_by_key, external, n_external)'
  BY <1>1 DEF IInv, lists, index, Indexed
<1>15. VisitedSoFar'
  BY <1>1, <1>3, <1>11, <1>12 DEF IInv, VisitedSoFar, lists, index, I, E
<1> QED BY <1>13, <1>14, <1>15 DEF IInv

LEMMA ReturnKeepsIInv ==
  ASSUME IInv, Return
  PROVE  IInv'
<1>1. TypeOK'
  BY DEF IInv, TypeOK, Return, lists, index
<1>2. /\ Indexed(internal_by_key, internal, n_internal)'
      /\ Indexed(external_by_key, external, n_external)'
  BY DEF IInv, Return, lists, index, Indexed
<1>3. VisitedSoFar'
  BY DEF IInv, VisitedSoFar, Visited, Return, lists, index
<1> QED BY <1>1, <1>2, <1>3 DEF IInv

LEMMA NextKeepsIInv ==
  ASSUME IInv, [Next]_vars
  PROVE  IInv'
<1>1. CASE UNCHANGED vars
  <2>1. TypeOK'
    BY <1>1 DEF IInv, TypeOK, vars, lists, index
  <2>2. /\ Indexed(internal_by_key, internal, n_internal)'
        /\ Indexed(external_by_key, external, n_external)'
    BY <1>1 DEF IInv, vars, lists, index, Indexed
  <2>3. VisitedSoFar'
    BY <1>1 DEF IInv, VisitedSoFar, Visited, vars, lists, index
  <2> QED BY <2>1, <2>2, <2>3 DEF IInv
<1>2. CASE IndexInternal BY <1>2, IndexInternalKeepsIInv
<1>3. CASE IndexExternal BY <1>3, IndexExternalKeepsIInv
<1>4. CASE UniteKeys BY <1>4, UniteKeysKeepsIInv
<1>5. CASE VisitKey BY <1>5, VisitKeyKeepsIInv
<1>6. CASE Return BY <1>6, ReturnKeepsIInv
<1> QED BY <1>1, <1>2, <1>3, <1>4, <1>5, <1>6 DEF Next, Step, Terminated

\* The inductive invariant holds at every step of hash_reconciler.reconcile.
THEOREM Invariance == Spec => []IInv
  BY InitEstablishesIInv, NextKeepsIInv, PTL DEF Spec

\* Every variable of the reconciler stays within its type.
THEOREM TypeCorrect == Spec => []TypeOK
<1>1. IInv => TypeOK
  BY DEF IInv
<1> QED BY <1>1, Invariance, PTL

-----------------------------------------------------------------------------
(* The result. *)

\* When the loop over the keys is over, the results are the expected ones.
LEMMA DoneIsExpected ==
  ASSUME IInv, pc # "index", all_keys = {}
  PROVE  /\ results \in Seq(ReconciliationResult)
         /\ Range(results) = Expected(Range(internal), Range(external))
         /\ IsInjective(results)
<1>1. Visited = Range(internal) \union Range(external)
  BY DEF Visited
<1> QED BY <1>1 DEF IInv, TypeOK, VisitedSoFar, Expected

\* When reconcile returns, every record of both lists is in exactly one
\* result: none is dropped, not even the lone record under a key that the
\* other source holds twice.
THEOREM EveryRecordReportedOnce == Spec => []ReportedOnce
<1>1. IInv => ReportedOnce
  <2> SUFFICES ASSUME IInv, pc = "done"
               PROVE  ReportsOnce(results, Range(internal), Range(external))
    BY DEF ReportedOnce
  <2>1. pc # "index" /\ all_keys = {}
    BY DEF IInv, VisitedSoFar
  <2>2. BothSides(Range(internal), Range(external))
    BY ListsHeld DEF IInv
  <2> QED BY <2>1, <2>2, DoneIsExpected, ExpectedReportsOnce
<1> QED BY <1>1, Invariance, PTL

\* The hash algorithm returns what the policy calls for, each result once: it
\* implements Reconciliation, whose one step is the call of reconcile.
THEOREM Implements == Spec => ImplementsReconciliation
<1>1. Init => R!Init
  BY DEF Init, R!Init, Outcome
<1>2. IInv /\ [Next]_vars => [R!Next]_(R!vars)
  <2> SUFFICES ASSUME IInv, [Next]_vars
               PROVE  [R!Next]_(R!vars)
    OBVIOUS
  <2>1. CASE UNCHANGED vars
    BY <2>1 DEF vars, lists, R!vars, Outcome
  <2>2. CASE IndexInternal \/ IndexExternal \/ UniteKeys \/ VisitKey
    <3>1. UNCHANGED lists /\ pc # "done" /\ pc' # "done"
      BY <2>2 DEF IndexInternal, IndexExternal, UniteKeys, VisitKey
    <3> QED BY <3>1 DEF R!vars, Outcome, lists
  <2>3. CASE Return
    <3>1. /\ Outcome = None /\ Outcome' = results
          /\ UNCHANGED <<internal, external>>
      BY <2>3 DEF Return, Outcome, lists
    <3>2. /\ results \in Seq(ReconciliationResult)
          /\ Range(results) = Expected(Range(internal), Range(external))
          /\ IsInjective(results)
      BY <2>3, DoneIsExpected DEF Return
    <3>3. results \in Seq(Range(results))
      BY <3>2, SeqOfRange
    <3>4. R!Enumerates(results, Expected(Range(internal), Range(external)))
      BY <3>2, <3>3 DEF R!Enumerates, R!Range, R!IsInjective, Range, IsInjective
    <3>5. R!Reconcile
      BY <3>1, <3>4 DEF R!Reconcile, R!Range, Range
    <3> QED BY <3>5 DEF R!Next
  <2> QED BY <2>1, <2>2, <2>3 DEF Next, Step, Terminated
<1> QED BY <1>1, <1>2, Invariance, PTL DEF Spec, ImplementsReconciliation, R!Spec

-----------------------------------------------------------------------------
(* The composite key. *)

\* The arguments are not touched.
LEMMA ListsGiven == Spec => [](internal \in InternalLists /\ external \in ExternalLists)
<1> DEFINE Given == internal \in InternalLists /\ external \in ExternalLists
<1>1. Init => Given
  BY DEF Init
<1>2. Given /\ [Next]_vars => Given'
  <2> SUFFICES ASSUME Given, [Next]_vars PROVE Given'
    OBVIOUS
  <2>1. UNCHANGED lists
    BY DEF Next, Step, IndexInternal, IndexExternal, UniteKeys, VisitKey, Return,
           Terminated, vars
  <2> QED BY <2>1 DEF lists
<1> QED BY <1>1, <1>2, PTL DEF Spec

\* When no vendor, invoice number or date holds the delimiter, the hash
\* algorithm never pairs records of different vendors or dates under
\* COMPOSITE_KEY: those two mismatches cannot be reported then.
THEOREM CompositePairsAgree ==
  ASSUME \A s \in InternalLists \union ExternalLists :
           \A k \in DOMAIN s : DelimiterFree(s[k])
  PROVE  Spec => []PairsAgree
<1>1. ASSUME IInv, internal \in InternalLists, external \in ExternalLists
      PROVE  PairsAgree
  <2> DEFINE I == Range(internal)
             E == Range(external)
  <2> SUFFICES ASSUME Strategy = "COMPOSITE_KEY", NEW k \in DOMAIN results,
                      results[k].internal_transaction # None,
                      results[k].external_transaction # None
               PROVE  {"date differs", "vendor differs"} \intersect results[k].mismatch_details = {}
    BY DEF PairsAgree
  <2>1. BothSides(I, E)
    BY <1>1, ListsHeld DEF IInv
  <2>2. \A t \in I \union E : DelimiterFree(t) /\ t \in Transaction
    <3>1. \A t \in I : DelimiterFree(t)
      BY <1>1 DEF Range
    <3>2. \A t \in E : DelimiterFree(t)
      BY <1>1 DEF Range
    <3> QED BY <3>1, <3>2, <2>1 DEF BothSides
  <2>3. PICK t \in I \union E : results[k] = Verdict(t, I, E)
    <3>1. results[k] \in Range(results)
      BY DEF Range
    <3>2. pc # "index"
      BY <1>1, <3>1 DEF IInv, VisitedSoFar, Range
    <3> QED BY <1>1, <3>1, <3>2 DEF IInv, VisitedSoFar, Visited
  <2>4. PICK i \in Peers(t, I), e \in Peers(t, E) : results[k] = ClassifyMatch(i, e)
    BY <2>3, PairedVerdict
  <2>5. i \in I /\ e \in E /\ BuildKey(i) = BuildKey(e)
    BY <2>4 DEF Peers
  <2>6. i.vendor_id = e.vendor_id /\ i.transaction_date = e.transaction_date
    BY <2>2, <2>5, CompositeKeyIsExact
  <2>7. results[k].mismatch_details = Mismatches(i, e)
    BY <2>4 DEF ClassifyMatch
  <2>8. "date differs" \notin Mismatches(i, e) /\ "vendor differs" \notin Mismatches(i, e)
    BY <2>6 DEF Mismatches
  <2> QED BY <2>7, <2>8
<1> QED BY <1>1, Invariance, ListsGiven, PTL
=============================================================================
