----------------------------- MODULE BudgetState -----------------------------
(***************************************************************************)
(* derive_budget_state (app/services/budget_state.py): the state of a      *)
(* budget as a function of its limit and of what was consumed.  Amounts    *)
(* are whole cents; the user's near_threshold is a whole percentage.       *)
(***************************************************************************)
EXTENDS Naturals

(* consumed / limit; a zero limit is passed by any consumption at all. *)
Ratio(limit, consumed) ==
    IF limit <= 0
    THEN [num |-> IF consumed > 0 THEN 2 ELSE 0, den |-> 1]
    ELSE [num |-> consumed, den |-> limit]

ExpenseState(limit, consumed, near) ==
    LET q == Ratio(limit, consumed) IN
    IF q.num > q.den THEN "over"
    ELSE IF q.num = q.den THEN "at"
    ELSE IF 100 * q.num >= near * q.den THEN "near"
    ELSE "ok"

IncomeState(limit, consumed) ==
    LET q == Ratio(limit, consumed) IN IF q.num >= q.den THEN "good" ELSE "on_track"

(* _STATE_RANK (app/repositories/notifications.py) *)
StateRank == [ok |-> 0, near |-> 1, at |-> 2, over |-> 3]
=============================================================================
