-------------------------- MODULE MCReconciliation --------------------------
(* Values for Reconciliation: two payments on different days and a         *)
(* receipt, an expense category, and its budget in a plan that covers both *)
(* days.                                                                   *)
EXTENDS Reconciliation, TLC

Symmetry == Permutations(Requests)

MCAmount       == [t \in Txns |-> 2]
MCDirection    == [t \in Txns |-> IF t = "salary" THEN "in" ELSE "out"]
MCDay          == [t \in Txns |-> IF t = "shop" THEN 1 ELSE 2]
MCCategoryType == [c \in Categories |-> "expense"]
MCCategoryOf   == [b \in Budgets |-> "food"]
MCWindow       == [b \in Budgets |-> Days]

(* All of a request's total, half of it or none of it is categorised. *)
MCSplits ==
    {[total |-> n, share |-> [c \in Categories |-> IF c = d THEN k ELSE 0]] :
        n \in 0..2, d \in Categories, k \in 0..2}
MCSplitsWithin == {s \in MCSplits : \A c \in Categories : s.share[c] <= s.total}
=============================================================================
