---------------------------- MODULE Reconciliation ----------------------------
(***************************************************************************)
(* What IReconciler.reconcile promises (reconciliation/base.py): given the *)
(* records of both sources it returns, in one step and in some order, each *)
(* expected result once.  HashReconciler, TwoPointerReconciler and         *)
(* BruteForceReconciler are shown to implement it, which is why the choice *)
(* of --algorithm changes nothing but the running time.                    *)
(***************************************************************************)
EXTENDS Sequences, Functions

CONSTANTS
  Expected(_, _),  \* the results two sets of records call for
  None             \* no outcome yet

VARIABLES internal, external, outcome

\* Whatever the two lists hold.
Init == outcome = None

\* results lists the elements of S, each once.
Enumerates(results, S) ==
  /\ results \in Seq(S)
  /\ Range(results) = S
  /\ IsInjective(results)

Reconcile ==
  /\ outcome = None
  /\ Enumerates(outcome', Expected(Range(internal), Range(external)))
  /\ UNCHANGED <<internal, external>>

Next == Reconcile

vars == <<internal, external, outcome>>

Spec == Init /\ [][Next]_vars
=============================================================================
