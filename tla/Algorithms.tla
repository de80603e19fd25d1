------------------------------ MODULE Algorithms ------------------------------
(***************************************************************************)
(* The three reconcilers on the same two lists, as cli.build_reconciler    *)
(* offers them, and next to them the FULL OUTER JOIN of sample_queries.sql.*)
(* They share nothing but their arguments, so one after the other is as    *)
(* good as any other order; the one that has most behaviours comes last.   *)
(***************************************************************************)
EXTENDS HashReconciler

VARIABLES
  internal_keyed, external_keyed, tp_i, tp_j, tp_results, tp_pc,
  internal_own_count, internal_cross_count, external_own_count, external_cross_count,
  bf_i, bf_j, bf_results, bf_pc

tp_vars == <<internal_keyed, external_keyed, tp_i, tp_j, tp_results, tp_pc>>
bf_vars == <<internal_own_count, internal_cross_count, external_own_count,
             external_cross_count, bf_i, bf_j, bf_results, bf_pc>>
all_vars == <<vars, tp_vars, bf_vars>>

TP == INSTANCE TwoPointerReconciler WITH i <- tp_i, j <- tp_j, results <- tp_results, pc <- tp_pc

BF == INSTANCE BruteForceReconciler WITH i <- bf_i, j <- bf_j, results <- bf_results, pc <- bf_pc

Start == Init /\ TP!Init /\ BF!Init

RunTwoPointer == TP!Step /\ UNCHANGED <<vars, bf_vars>>

RunBruteForce == tp_pc = "done" /\ BF!Step /\ UNCHANGED <<vars, tp_vars>>

RunHash == bf_pc = "done" /\ Step /\ UNCHANGED <<tp_vars, bf_vars>>

AllReturned == pc = "done" /\ UNCHANGED all_vars

Run == RunTwoPointer \/ RunBruteForce \/ RunHash

\* One thread that keeps executing.
RunsSpec == Start /\ [][Run \/ AllReturned]_all_vars /\ WF_all_vars(Run)

-----------------------------------------------------------------------------
(* Properties. *)

\* Every variable of the three algorithms stays within its type; the
\* differences they report are never negative.
AllTypesOK == TypeOK /\ TP!TypeOK /\ BF!TypeOK

\* The loop invariant of the two-pointer walk.
MergedSoFar == TP!MergedSoFar

\* What the two loops of brute force decide from agrees.
CountsAgree == BF!CountsAgree

\* The two-pointer and the brute-force algorithm implement the same abstract
\* reconciliation as the hash algorithm.
OthersImplement == TP!ImplementsReconciliation /\ BF!ImplementsReconciliation

\* The choice of --algorithm changes nothing but the order of the results
\* (README.md:22-24 and 127-131, "identical counts").
AlgorithmsAgree ==
  pc = "done" =>
    /\ Range(tp_results) = Range(results) /\ Len(tp_results) = Len(results)
    /\ Range(bf_results) = Range(results) /\ Len(bf_results) = Len(results)

X == INSTANCE MatchClassifier WITH Strategy <- "EXACT_ID", Tolerance <- 0

SQL == INSTANCE SqlJoin

RowsAbout(t) == {p \in SQL!Joined(Range(internal), Range(external)) : t \in {p[1], p[2]}}

\* Query 1 has one row about record t, with the status of this result, or with
\* one of its mismatches where that is MULTIPLE_MISMATCHES.
JoinSays(t, result) ==
  \E p \in RowsAbout(t) :
    /\ RowsAbout(t) = {p}
    /\ IF result.status = "MULTIPLE_MISMATCHES"
       THEN \E d \in result.mismatch_details : SQL!StatusOf(p) = X!StatusOf({d})
       ELSE SQL!StatusOf(p) = result.status

\* For a transaction id that neither source repeats, the FULL OUTER JOIN says
\* what the policy says by id and without tolerance (sample_queries.sql, "KNOWN,
\* VERIFIED LIMITATION").  An id that the external source repeats is listed by
\* query 3.  One that only the internal source repeats is listed nowhere: the
\* join has an ordinary row for each of its internal records, as if that were
\* the only one, where the policy has a DUPLICATE.
JoinIsExactOnUniqueKeys ==
  pc = "done" =>
    \A t \in Range(internal) \union Range(external) :
      LET verdict == X!Verdict(t, Range(internal), Range(external))
          listed == t.transaction_id \in SQL!RepeatedIds(Range(external))
          repeatedInternally ==
            \E u, v \in Range(internal) :
              u # v /\ {u.transaction_id, v.transaction_id} = {t.transaction_id}
      IN /\ verdict.status = "DUPLICATE" <=> listed \/ repeatedInternally
         /\ verdict.status # "DUPLICATE" => JoinSays(t, verdict)
         /\ t \in Range(internal) /\ ~listed =>
              JoinSays(t, X!Verdict(t, {t}, Range(external)))
=============================================================================
