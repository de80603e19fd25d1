------------------------- MODULE TwoPointerReconciler -------------------------
(***************************************************************************)
(* reconciliation/two_pointer_reconciler.py: sort both lists by key, then  *)
(* walk them in parallel, one run of equal keys at a time.  Positions      *)
(* count from 1, so i and j end one past the lists.                        *)
(***************************************************************************)
EXTENDS MatchClassifier

VARIABLES
  internal, external,              \* the arguments
  internal_keyed, external_keyed,  \* the same, sorted by key
  i, j,                            \* where the walk is in each
  results,
  pc

lists == <<internal, external>>
keyed == <<internal_keyed, external_keyed>>
vars == <<lists, keyed, i, j, results, pc>>

Init ==
  /\ internal \in InternalLists /\ external \in ExternalLists
  /\ internal_keyed = <<>> /\ external_keyed = <<>>
  /\ i = 1 /\ j = 1
  /\ results = <<>>
  /\ pc = "sort"

\* a < b for Python strings: the first code that differs decides, and a
\* proper prefix comes first.
TextLT(a, b) ==
  \E n \in 0..Len(a) :
    /\ n < Len(b)
    /\ \A k \in 1..n : a[k] = b[k]
    /\ n < Len(a) => a[n + 1] < b[n + 1]

KeyLT(t, u) == TextLT(BuildKey(t), BuildKey(u))

SameKey(t, u) == BuildKey(t) = BuildKey(u)

\* The order in which a stable sort by key lists the positions of s.
StableOrder(s) ==
  {p \in Bijection(DOMAIN s, DOMAIN s) :
     \A k, l \in DOMAIN s : k < l =>
       \/ KeyLT(s[p[k]], s[p[l]])
       \/ SameKey(s[p[k]], s[p[l]]) /\ p[k] < p[l]}

Reordered(s, p) == [k \in DOMAIN s |-> s[p[k]]]

Sort ==
  /\ pc = "sort"
  /\ \E p \in StableOrder(internal) : internal_keyed' = Reordered(internal, p)
  /\ \E q \in StableOrder(external) : external_keyed' = Reordered(external, q)
  /\ pc' = "walk"
  /\ UNCHANGED <<lists, i, j, results>>

\* Fault: the run of equal keys never reaches the last record (OthersImplement).
GroupEndsShort(s, start) ==
  {end \in (start + 1)..(Len(s) + 1) :
     /\ \A k \in start..(end - 1) : SameKey(s[k], s[start])
     /\ end < Len(s) => ~SameKey(s[end], s[start])
     /\ end = Len(s) + 1 => start = Len(s)}

\* _group_end: one past the run of records that share s[start]'s key; the set
\* of the ends at which the loop may stop, which has one element.
GroupEnds(s, start) ==
  {end \in (start + 1)..(Len(s) + 1) :
     /\ \A k \in start..(end - 1) : SameKey(s[k], s[start])
     /\ end <= Len(s) => ~SameKey(s[end], s[start])}

have_internal == i <= Len(internal_keyed)
have_external == j <= Len(external_keyed)

\* The conditions of the if and of the elif.
InternalFirst ==
  have_internal /\ (have_external => KeyLT(internal_keyed[i], external_keyed[j]))
ExternalFirst ==
  have_external /\ (have_internal => KeyLT(external_keyed[j], internal_keyed[i]))

InternalOnly ==
  /\ pc = "walk" /\ InternalFirst
  /\ \E end \in GroupEnds(internal_keyed, i) :
       /\ i' = end
       /\ results' = results \o (IF end - i > 1 THEN Duplicates(SubSeq(internal_keyed, i, end - 1))
                                 ELSE <<MissingExternal(internal_keyed[i])>>)
  /\ UNCHANGED <<lists, keyed, j, pc>>

ExternalOnly ==
  /\ pc = "walk" /\ ~InternalFirst /\ ExternalFirst
  /\ \E end \in GroupEnds(external_keyed, j) :
       /\ j' = end
       /\ results' = results \o (IF end - j > 1 THEN Duplicates(SubSeq(external_keyed, j, end - 1))
                                 ELSE <<MissingInternal(external_keyed[j])>>)
  /\ UNCHANGED <<lists, keyed, i, pc>>

\* Fault: only one internal record of an ambiguous key is stepped over
\* (MergedSoFar).
EqualKeysStepOne ==
  /\ pc = "walk" /\ have_internal /\ have_external /\ ~InternalFirst /\ ~ExternalFirst
  /\ \E j_end \in GroupEnds(external_keyed, j) :
       /\ i' = i + 1 /\ j' = j_end
       /\ results' = results \o
            (IF j_end - j > 1
             THEN Duplicates(SubSeq(internal_keyed, i, i))
                    \o Duplicates(SubSeq(external_keyed, j, j_end - 1))
             ELSE <<ClassifyMatch(internal_keyed[i], external_keyed[j])>>)
  /\ UNCHANGED <<lists, keyed, pc>>

\* Fault: an ambiguous key is skipped without moving a pointer past it
\* (Terminates).
EqualKeysNotMoving ==
  /\ pc = "walk" /\ (have_internal \/ have_external) /\ ~InternalFirst /\ ~ExternalFirst
  /\ \E i_end \in GroupEnds(internal_keyed, i), j_end \in GroupEnds(external_keyed, j) :
       IF i_end - i > 1 \/ j_end - j > 1
       THEN UNCHANGED <<i, j, results>>
       ELSE /\ i' = i_end /\ j' = j_end
            /\ results' = Append(results, ClassifyMatch(internal_keyed[i], external_keyed[j]))
  /\ UNCHANGED <<lists, keyed, pc>>

EqualKeys ==
  /\ pc = "walk" /\ (have_internal \/ have_external) /\ ~InternalFirst /\ ~ExternalFirst
  /\ \E i_end \in GroupEnds(internal_keyed, i), j_end \in GroupEnds(external_keyed, j) :
       /\ i' = i_end /\ j' = j_end
       /\ results' = results \o
            (IF i_end - i > 1 \/ j_end - j > 1
             THEN Duplicates(SubSeq(internal_keyed, i, i_end - 1))
                    \o Duplicates(SubSeq(external_keyed, j, j_end - 1))
             ELSE <<ClassifyMatch(internal_keyed[i], external_keyed[j])>>)
  /\ UNCHANGED <<lists, keyed, pc>>

Return ==
  /\ pc = "walk" /\ ~have_internal /\ ~have_external
  /\ pc' = "done"
  /\ UNCHANGED <<lists, keyed, i, j, results>>

Terminated == pc = "done" /\ UNCHANGED vars

Step == Sort \/ InternalOnly \/ ExternalOnly \/ EqualKeys \/ Return

Next == Step \/ Terminated

Spec == Init /\ [][Next]_vars

\* One thread that keeps executing.
FairSpec == Spec /\ WF_vars(Step)

-----------------------------------------------------------------------------
(* Properties. *)

\* Every variable stays within its type; the differences are never negative.
TypeOK ==
  /\ internal \in ListsOf("INTERNAL") /\ external \in ListsOf("EXTERNAL")
  /\ internal_keyed \in Seq(Transaction) /\ external_keyed \in Seq(Transaction)
  /\ i \in 1..(Len(internal_keyed) + 1) /\ j \in 1..(Len(external_keyed) + 1)
  /\ results \in Seq(ReconciliationResult)
  /\ pc \in {"sort", "walk", "done"}

\* The records behind the two pointers.
Merged ==
  {internal_keyed[k] : k \in 1..(i - 1)} \union {external_keyed[k] : k \in 1..(j - 1)}

\* The records still ahead of them.
Ahead ==
  {internal_keyed[k] : k \in i..Len(internal_keyed)}
    \union {external_keyed[k] : k \in j..Len(external_keyed)}

\* The walk's loop invariant: every key behind the pointers is smaller than
\* every key ahead of them, in both lists, so no group is cut in two, and the
\* results are the verdicts on the records behind, each once
\* (two_pointer_reconciler.py, the while loop).
MergedSoFar ==
  pc # "sort" =>
    /\ \A t \in Merged, u \in Ahead : KeyLT(t, u)
    /\ Range(results) = {Verdict(t, Range(internal), Range(external)) : t \in Merged}
    /\ IsInjective(results)

\* keyed_list lists the records of s, each once, by ascending key.
SortedFrom(keyed_list, s) ==
  /\ Range(keyed_list) = Range(s) /\ IsInjective(keyed_list)
  /\ \A k, l \in DOMAIN keyed_list :
       k < l => \/ KeyLT(keyed_list[k], keyed_list[l])
                \/ SameKey(keyed_list[k], keyed_list[l])

\* The inductive invariant behind ImplementsReconciliation.
IInv ==
  /\ TypeOK
  /\ pc = "sort" => i = 1 /\ j = 1 /\ results = <<>>
  /\ pc # "sort" => SortedFrom(internal_keyed, internal) /\ SortedFrom(external_keyed, external)
  /\ pc = "done" => i = Len(internal_keyed) + 1 /\ j = Len(external_keyed) + 1
  /\ MergedSoFar

\* The list returned, once it is.
Outcome == IF pc = "done" THEN results ELSE None

R == INSTANCE Reconciliation WITH outcome <- Outcome

\* The two-pointer walk returns what the policy calls for, each result once.
ImplementsReconciliation == R!Spec

\* reconcile returns: every step of the walk moves a pointer.
Terminates == <>(pc = "done")
=============================================================================
