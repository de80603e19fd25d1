------------------------- MODULE BruteForceReconciler -------------------------
(***************************************************************************)
(* reconciliation/brute_force_reconciler.py: count for every record how    *)
(* many records of its own and of the other list share its key, then       *)
(* decide record by record from the counts.                                *)
(***************************************************************************)
EXTENDS MatchClassifier, FiniteSets

VARIABLES
  internal, external,                         \* the arguments
  internal_own_count, internal_cross_count,   \* the counts made so far
  external_own_count, external_cross_count,
  i, j,                                       \* records decided so far
  results,
  pc

lists == <<internal, external>>
counts == <<internal_own_count, internal_cross_count, external_own_count, external_cross_count>>
vars == <<lists, counts, i, j, results, pc>>

Init ==
  /\ internal \in InternalLists /\ external \in ExternalLists
  /\ internal_own_count = <<>> /\ internal_cross_count = <<>>
  /\ external_own_count = <<>> /\ external_cross_count = <<>>
  /\ i = 0 /\ j = 0
  /\ results = <<>>
  /\ pc = "count"

\* Where s has the key of t.
Sharing(s, t) == {k \in DOMAIN s : BuildKey(s[k]) = BuildKey(t)}

\* Fault: a record does not count itself (CountsAgree).
CountInternalOthers ==
  LET n == Len(internal_own_count) + 1 IN
  /\ pc = "count" /\ n <= Len(internal)
  /\ internal_own_count' =
       Append(internal_own_count, Cardinality(Sharing(internal, internal[n]) \ {n}))
  /\ internal_cross_count' =
       Append(internal_cross_count, Cardinality(Sharing(external, internal[n])))
  /\ UNCHANGED <<lists, external_own_count, external_cross_count, i, j, results, pc>>

CountInternal ==
  LET n == Len(internal_own_count) + 1 IN
  /\ pc = "count" /\ n <= Len(internal)
  /\ internal_own_count' =
       Append(internal_own_count, Cardinality(Sharing(internal, internal[n])))
  /\ internal_cross_count' =
       Append(internal_cross_count, Cardinality(Sharing(external, internal[n])))
  /\ UNCHANGED <<lists, external_own_count, external_cross_count, i, j, results, pc>>

CountExternal ==
  LET n == Len(external_own_count) + 1 IN
  /\ pc = "count" /\ Len(internal_own_count) = Len(internal) /\ n <= Len(external)
  /\ external_own_count' =
       Append(external_own_count, Cardinality(Sharing(external, external[n])))
  /\ external_cross_count' =
       Append(external_cross_count, Cardinality(Sharing(internal, external[n])))
  /\ UNCHANGED <<lists, internal_own_count, internal_cross_count, i, j, results, pc>>

EndCounting ==
  /\ pc = "count"
  /\ Len(internal_own_count) = Len(internal) /\ Len(external_own_count) = Len(external)
  /\ pc' = "decide"
  /\ UNCHANGED <<lists, counts, i, j, results>>

\* The first record of s with t's key, where the scan breaks.
FirstSharing(s, t) ==
  s[CHOOSE k \in Sharing(s, t) : \A l \in Sharing(s, t) : k <= l]

\* Fault: only the internal side decides what is ambiguous
\* (AlgorithmsAgree).
DecideInternalAlone ==
  LET t == internal[i + 1]
      own == internal_own_count[i + 1]
      cross == internal_cross_count[i + 1]
  IN /\ pc = "decide" /\ i < Len(internal)
     /\ i' = i + 1
     /\ results' = Append(results,
          IF own > 1 THEN Duplicate(t)
          ELSE IF cross >= 1 THEN ClassifyMatch(t, FirstSharing(external, t))
          ELSE MissingExternal(t))
     /\ UNCHANGED <<lists, counts, j, pc>>

DecideInternal ==
  LET t == internal[i + 1]
      own == internal_own_count[i + 1]
      cross == internal_cross_count[i + 1]
  IN /\ pc = "decide" /\ i < Len(internal)
     /\ i' = i + 1
     /\ results' = Append(results,
          IF own > 1 \/ cross > 1 THEN Duplicate(t)
          ELSE IF cross = 1 THEN ClassifyMatch(t, FirstSharing(external, t))
          ELSE MissingExternal(t))
     /\ UNCHANGED <<lists, counts, j, pc>>

\* A pair is not reported again: the loop over the internal list has done it.
DecideExternal ==
  LET t == external[j + 1]
      own == external_own_count[j + 1]
      cross == external_cross_count[j + 1]
  IN /\ pc = "decide" /\ i = Len(internal) /\ j < Len(external)
     /\ j' = j + 1
     /\ results' = results \o
          (IF own > 1 \/ cross > 1 THEN <<Duplicate(t)>>
           ELSE IF cross = 0 THEN <<MissingInternal(t)>>
           ELSE <<>>)
     /\ UNCHANGED <<lists, counts, i, pc>>

Return ==
  /\ pc = "decide" /\ i = Len(internal) /\ j = Len(external)
  /\ pc' = "done"
  /\ UNCHANGED <<lists, counts, i, j, results>>

Terminated == pc = "done" /\ UNCHANGED vars

Step ==
  CountInternal \/ CountExternal \/ EndCounting \/ DecideInternal \/ DecideExternal \/ Return

Next == Step \/ Terminated

Spec == Init /\ [][Next]_vars

\* One thread that keeps executing.
FairSpec == Spec /\ WF_vars(Step)

-----------------------------------------------------------------------------
(* Properties. *)

\* Every variable stays within its type; the differences are never negative.
TypeOK ==
  /\ internal \in ListsOf("INTERNAL") /\ external \in ListsOf("EXTERNAL")
  /\ \A count \in {internal_own_count, internal_cross_count,
                   external_own_count, external_cross_count} : count \in Seq(Nat)
  /\ i \in 0..Len(internal) /\ j \in 0..Len(external)
  /\ results \in Seq(ReconciliationResult)
  /\ pc \in {"count", "decide", "done"}

\* The two loops see the same groups: an internal record whose key is held
\* once on either side has exactly one external record that agrees with that,
\* so what the second loop leaves out is what the first one has reported
\* (brute_force_reconciler.py:83-87).
CountsAgree ==
  pc # "count" =>
    \A k \in DOMAIN internal, l \in DOMAIN external :
      BuildKey(internal[k]) = BuildKey(external[l]) =>
        /\ internal_own_count[k] = external_cross_count[l]
        /\ internal_cross_count[k] = external_own_count[l]

\* What the counts made so far say.
CountedSoFar ==
  /\ Len(internal_own_count) \in 0..Len(internal)
  /\ Len(internal_cross_count) = Len(internal_own_count)
  /\ Len(external_own_count) \in 0..Len(external)
  /\ Len(external_cross_count) = Len(external_own_count)
  /\ \A k \in DOMAIN internal_own_count :
       /\ internal_own_count[k] = Cardinality(Sharing(internal, internal[k]))
       /\ internal_cross_count[k] = Cardinality(Sharing(external, internal[k]))
  /\ \A k \in DOMAIN external_own_count :
       /\ external_own_count[k] = Cardinality(Sharing(external, external[k]))
       /\ external_cross_count[k] = Cardinality(Sharing(internal, external[k]))
  /\ pc # "count" =>
       Len(internal_own_count) = Len(internal) /\ Len(external_own_count) = Len(external)

\* The records the two loops have passed.
Decided == {internal[k] : k \in 1..i} \union {external[k] : k \in 1..j}

\* The results are the verdicts on the records passed, each once: what the
\* second loop leaves out, the first one has reported.
DecidedSoFar ==
  /\ pc = "count" => i = 0 /\ j = 0
  /\ j > 0 => i = Len(internal)
  /\ pc = "done" => i = Len(internal) /\ j = Len(external)
  /\ Range(results) = {Verdict(t, Range(internal), Range(external)) : t \in Decided}
  /\ IsInjective(results)

\* The inductive invariant behind CountsAgree and ImplementsReconciliation.
IInv == TypeOK /\ CountedSoFar /\ DecidedSoFar

\* The list returned, once it is.
Outcome == IF pc = "done" THEN results ELSE None

R == INSTANCE Reconciliation WITH outcome <- Outcome

\* The nested loops return what the policy calls for, each result once.
ImplementsReconciliation == R!Spec

\* reconcile returns.
Terminates == <>(pc = "done")
=============================================================================
