---------------------------- MODULE MCPlanListing ----------------------------
(* Values for PlanListing: a month's plan with a cap and, in the next      *)
(* month, one without; an expense and an income category; and lines that   *)
(* differ in one respect from another: day, category, transfer, owner.     *)
EXTENDS PlanListing, TLC

Symmetry == Permutations(Readers)

MCPlanOrder ==
    LET Listed(p) == p \in Plans IN SelectSeq(<<"may", "april">>, Listed)
MCWindow       == [p \in Plans |-> IF p = "april" THEN {1} ELSE {2}]
MCCap          == [p \in Plans |-> IF p = "april" THEN 2 ELSE None]
MCCategoryType == [c \in Categories |-> IF c = "food" THEN "expense" ELSE "income"]

Line(own, day, direction, category, transfer) ==
    [own |-> own, day |-> day, direction |-> direction, category |-> category,
     transfer |-> transfer]

MCLineOf ==
    [l \in Lines |->
        CASE l = "groceries"      -> Line(TRUE, 1, "out", "food", FALSE)
          [] l = "may groceries"  -> Line(TRUE, 2, "out", "food", FALSE)
          [] l = "salary"         -> Line(TRUE, 1, "in", "wages", FALSE)
          [] l = "no category"    -> Line(TRUE, 1, "out", None, FALSE)
          [] l = "loan repayment" -> Line(TRUE, 1, "out", None, TRUE)
          [] l = "someone else's" -> Line(FALSE, 1, "out", None, FALSE)]
=============================================================================
