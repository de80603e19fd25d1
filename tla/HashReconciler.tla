---------------------------- MODULE HashReconciler ----------------------------
(***************************************************************************)
(* reconciliation/hash_reconciler.py: index both lists by key, then visit  *)
(* the union of the keys.  The order in which Python walks a set of        *)
(* strings depends on the hash seed of the process: any order.             *)
(***************************************************************************)
EXTENDS MatchClassifier

VARIABLES
  internal, external,              \* the arguments
  n_internal, n_external,          \* records of each already indexed
  internal_by_key, external_by_key,
  all_keys,                        \* keys still to be visited
  results,
  pc

lists == <<internal, external>>
index == <<n_internal, n_external, internal_by_key, external_by_key>>
vars == <<lists, index, all_keys, results, pc>>

Init ==
  /\ internal \in InternalLists /\ external \in ExternalLists
  /\ n_internal = 0 /\ n_external = 0
  /\ internal_by_key = <<>> /\ external_by_key = <<>>
  /\ all_keys = {}
  /\ results = <<>>
  /\ pc = "index"

\* by_key.get(key, [])
GroupOf(by_key, key) == IF key \in DOMAIN by_key THEN by_key[key] ELSE <<>>

\* Fault: a key holds one record, the last (ReportedOnce, IInv).
KeepLast(by_key, t) ==
  [key \in DOMAIN by_key \union {BuildKey(t)} |->
     IF key = BuildKey(t) THEN <<t>> ELSE by_key[key]]

\* by_key[build_key(t)].append(t), by_key being a defaultdict(list)
AddToIndex(by_key, t) ==
  [key \in DOMAIN by_key \union {BuildKey(t)} |->
     IF key = BuildKey(t) THEN Append(GroupOf(by_key, key), t) ELSE by_key[key]]

IndexInternal ==
  /\ pc = "index" /\ n_internal < Len(internal)
  /\ n_internal' = n_internal + 1
  /\ internal_by_key' = AddToIndex(internal_by_key, internal[n_internal + 1])
  /\ UNCHANGED <<lists, n_external, external_by_key, all_keys, results, pc>>

IndexExternal ==
  /\ pc = "index" /\ n_internal = Len(internal) /\ n_external < Len(external)
  /\ n_external' = n_external + 1
  /\ external_by_key' = AddToIndex(external_by_key, external[n_external + 1])
  /\ UNCHANGED <<lists, n_internal, internal_by_key, all_keys, results, pc>>

UniteKeys ==
  /\ pc = "index" /\ n_internal = Len(internal) /\ n_external = Len(external)
  /\ all_keys' = DOMAIN internal_by_key \union DOMAIN external_by_key
  /\ pc' = "visit"
  /\ UNCHANGED <<lists, index, results>>

\* Fault: only the ambiguous side is reported (ImplementsReconciliation).
ReportAmbiguousSide(g, h) ==
  IF Len(g) > 1 \/ Len(h) > 1
  THEN (IF Len(g) > 1 THEN Duplicates(g) ELSE <<>>) \o (IF Len(h) > 1 THEN Duplicates(h) ELSE <<>>)
  ELSE IF Len(g) = 1 /\ Len(h) = 1 THEN <<ClassifyMatch(g[1], h[1])>>
  ELSE IF Len(g) = 1 THEN <<MissingExternal(g[1])>>
  ELSE <<MissingInternal(h[1])>>

\* What is reported for a key, g and h being its two groups.
GroupResults(g, h) ==
  IF Len(g) > 1 \/ Len(h) > 1 THEN Duplicates(g) \o Duplicates(h)
  ELSE IF Len(g) = 1 /\ Len(h) = 1 THEN <<ClassifyMatch(g[1], h[1])>>
  ELSE IF Len(g) = 1 THEN <<MissingExternal(g[1])>>
  ELSE <<MissingInternal(h[1])>>

VisitKey ==
  \E key \in all_keys :
    /\ pc = "visit"
    /\ all_keys' = all_keys \ {key}
    /\ results' = results \o GroupResults(GroupOf(internal_by_key, key),
                                          GroupOf(external_by_key, key))
    /\ UNCHANGED <<lists, index, pc>>

Return ==
  /\ pc = "visit" /\ all_keys = {}
  /\ pc' = "done"
  /\ UNCHANGED <<lists, index, all_keys, results>>

Terminated == pc = "done" /\ UNCHANGED vars

Step == IndexInternal \/ IndexExternal \/ UniteKeys \/ VisitKey \/ Return

Next == Step \/ Terminated

Spec == Init /\ [][Next]_vars

\* One thread that keeps executing.
FairSpec == Spec /\ WF_vars(Step)

-----------------------------------------------------------------------------
(* Properties. *)

\* Every variable stays within its type; the differences are never negative.
TypeOK ==
  /\ internal \in ListsOf("INTERNAL") /\ external \in ListsOf("EXTERNAL")
  /\ n_internal \in 0..Len(internal) /\ n_external \in 0..Len(external)
  /\ \A by_key \in {internal_by_key, external_by_key} :
       /\ DOMAIN by_key \subseteq Text
       /\ \A key \in DOMAIN by_key : by_key[key] \in Seq(Transaction)
  /\ all_keys \subseteq Text
  /\ results \in Seq(ReconciliationResult)
  /\ pc \in {"index", "visit", "done"}

\* When reconcile returns, every record is in exactly one result
\* (hash_reconciler.py: a record must never be "silently dropped").
ReportedOnce == pc = "done" => ReportsOnce(results, Range(internal), Range(external))

\* Under a composite key, a paired result never joins records that differ in
\* vendor or date: joining the three texts loses nothing they say
\* (match_classifier.py:24-27, "a safe, simple delimiter").
PairsAgree ==
  Strategy = "COMPOSITE_KEY" =>
    \A k \in DOMAIN results :
      LET r == results[k] IN
      None \notin {r.internal_transaction, r.external_transaction} =>
        {"date differs", "vendor differs"} \intersect r.mismatch_details = {}

\* by_key groups the first n records of s by key, each once.
Indexed(by_key, s, n) ==
  /\ DOMAIN by_key = {BuildKey(s[k]) : k \in 1..n}
  /\ \A key \in DOMAIN by_key :
       /\ Range(by_key[key]) = {s[k] : k \in {l \in 1..n : BuildKey(s[l]) = key}}
       /\ IsInjective(by_key[key])

Visited ==
  {t \in Range(internal) \union Range(external) : BuildKey(t) \notin all_keys}

\* While keys are visited, the results are the verdicts on the records of the
\* keys visited so far, each once.
VisitedSoFar ==
  /\ pc = "index" => results = <<>>
  /\ pc # "index" =>
       /\ n_internal = Len(internal) /\ n_external = Len(external)
       /\ all_keys \subseteq DOMAIN internal_by_key \union DOMAIN external_by_key
       /\ Range(results) = {Verdict(t, Range(internal), Range(external)) : t \in Visited}
       /\ IsInjective(results)
  /\ pc = "done" => all_keys = {}

\* The inductive invariant behind ImplementsReconciliation: the two indexes
\* group what has been read, and no key's verdicts are lost or given twice
\* (hash_reconciler.py, the three loops).
IInv ==
  /\ TypeOK
  /\ Indexed(internal_by_key, internal, n_internal)
  /\ Indexed(external_by_key, external, n_external)
  /\ VisitedSoFar

\* The list returned, once it is.
Outcome == IF pc = "done" THEN results ELSE None

R == INSTANCE Reconciliation WITH outcome <- Outcome

\* The hash algorithm returns what the policy calls for, each result once, in
\* some order -- whatever the hash seed.
ImplementsReconciliation == R!Spec

\* reconcile returns.
Terminates == <>(pc = "done")
=============================================================================
