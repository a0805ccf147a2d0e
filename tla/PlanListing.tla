----------------------------- MODULE PlanListing -----------------------------
(***************************************************************************)
(* What one user reads about budget plans while allocations and budgets    *)
(* keep changing: GET /budget-plans (list_budget_plans), GET /budget-      *)
(* plans/{id}/money-flows (list_plan_money_flows) and the budget-plan      *)
(* export (get_budget_plans_report).  Each is a sequence of queries with   *)
(* no common snapshot.  The plans themselves never change.                 *)
(*                                                                         *)
(* A line stands for the allocations that agree on everything the queries  *)
(* tell apart; the allocations table is append-only, so the sum of a line  *)
(* only grows.  Amounts are whole.                                         *)
(***************************************************************************)
EXTENDS Integers, Sequences, FiniteSets, Functions, BudgetState

CONSTANTS Readers, Plans, Categories, Days, Lines, None, Absent,
          PlanOrder,      \* the user's plans, most recently started first
          Window,         \* the days of each plan
          Cap,            \* budget_plans.total_cap, None when not set
          CategoryType,   \* categories.type, of this user's categories
          LineOf,         \* owner, day, direction, category, transfer of a line
          Limits,         \* values of budgets.limit_amount
          NearThreshold,  \* users.near_threshold, in percent
          MaxUnits,       \* bound: allocations made, of one unit each
          MaxEdits        \* bound: budgets added or changed

Kinds  == {"plans", "flows", "export"}
States == {"ok", "near", "at", "over", "on_track", "good"}

(* The listing returns each plan of the user once.                         *)
(* An allocation has the category type of its direction, only its owner's  *)
(* categories, and never both a category and a transfer reason: Create-    *)
(* allocations refuses the others.                                         *)
ASSUME ConstantsAssumption ==
    /\ PlanOrder \in Seq(Plans)
    /\ \A p \in Plans : \E i \in DOMAIN PlanOrder : PlanOrder[i] = p
    /\ \A i, j \in DOMAIN PlanOrder : PlanOrder[i] = PlanOrder[j] => i = j
    /\ Window \in [Plans -> SUBSET Days]
    /\ Cap \in [Plans -> Nat \cup {None}]
    /\ CategoryType \in [Categories -> {"expense", "income"}]
    /\ LineOf \in [Lines -> [own : BOOLEAN, day : Days, direction : {"in", "out"},
                             category : Categories \cup {None}, transfer : BOOLEAN]]
    /\ \A l \in Lines : LineOf[l].category # None =>
          /\ LineOf[l].own /\ ~LineOf[l].transfer
          /\ LineOf[l].direction = "out" <=> CategoryType[LineOf[l].category] = "expense"
    /\ Limits \subseteq Nat /\ NearThreshold \in 1..99
    /\ None \notin Nat \cup Categories /\ None \notin Kinds \cup States /\ Absent \notin Limits \cup {None}
    /\ MaxUnits \in Nat /\ MaxEdits \in Nat

ASSUME FiniteTables == IsFiniteSet(Plans) /\ IsFiniteSet(Lines) /\ IsFiniteSet(Categories)

VARIABLES
    amount,  \* SUM(amount) over the allocations of each line
    limit,   \* budgets.limit_amount: None is uncapped, Absent is no row
    kind,    \* what each reader asked for
    asks,    \* the queries it has still to make
    rows,    \* the budgets in its answer
    totals,  \* the totals in its answer
    began,   \* history: the allocations when it was admitted
    edits

readerVars == <<kind, asks, rows, totals, began>>
vars == <<amount, limit, readerVars, edits>>

What    == {"budgets", "out", "in"}
Figures == [out : Nat \cup {None}, in : Nat \cup {None}]
Row     == [plan : Plans, category : Categories, limit : Limits \cup {None}, consumed : Nat,
            state : States \cup {None}]

TypeOK ==
    /\ amount \in [Lines -> Nat]
    /\ limit \in [Plans -> [Categories -> Limits \cup {None, Absent}]]
    /\ kind \in [Readers -> Kinds \cup {None}]
    /\ asks \in [Readers -> Seq([plan : Plans, what : What])]
    /\ rows \in [Readers -> SUBSET Row]
    /\ \A r \in Readers : \A b \in rows[r] : b.limit = None <=> b.state = None
    /\ totals \in [Readers -> [Plans -> Figures]]
    /\ edits \in 0..MaxEdits

Init ==
    /\ amount = [l \in Lines |-> 0]
    /\ limit = [p \in Plans |-> [c \in Categories |-> Absent]]
    /\ kind = [r \in Readers |-> None]
    /\ asks = [r \in Readers |-> <<>>]
    /\ rows = [r \in Readers |-> {}]
    /\ totals = [r \in Readers |-> [p \in Plans |-> [out |-> None, in |-> None]]]
    /\ began = [r \in Readers |-> [l \in Lines |-> 0]]
    /\ edits = 0

-----------------------------------------------------------------------------
(* The sums.  The consumption of a category in a plan's window; the total  *)
(* of a direction, transfers left out.                                     *)
InWindow(p)      == {l \in Lines : LineOf[l].day \in Window[p]}
ConsumedBy(p, c) == {l \in InWindow(p) : LineOf[l].category = c}
Consumed(p, c)   == SumFunctionOnSet(amount, ConsumedBy(p, c))

Counted(p, d) == {l \in InWindow(p) : LineOf[l].direction = d /\ ~LineOf[l].transfer}

Total(p, d)  == SumFunctionOnSet(amount, Counted(p, d))

(* The money-flows request has a query of its own for the same rows.       *)
Wrong_FlowsWithTransfers(p, d) ==
    SumFunctionOnSet(amount, {l \in InWindow(p) : LineOf[l].direction = d})
Flows(p, d) == SumFunctionOnSet(amount, Counted(p, d))

(* derive_budget_state; an uncapped budget has no state. *)
Wrong_UncappedIsZero(type, lim, consumed) ==
    IF type = "income" THEN IncomeState(IF lim = None THEN 0 ELSE lim, consumed)
    ELSE ExpenseState(IF lim = None THEN 0 ELSE lim, consumed, NearThreshold)
DerivedState(type, lim, consumed) ==
    IF lim = None THEN None
    ELSE IF type = "income" THEN IncomeState(lim, consumed)
    ELSE ExpenseState(lim, consumed, NearThreshold)

(* The plan's own cap is measured against the total expenditure. *)
Wrong_CapOnIncome(p, figures) == DerivedState("expense", Cap[p], figures.in)
CapState(p, figures)          == DerivedState("expense", Cap[p], figures.out)

(* The queries of a request for each plan, in order, plan after plan. *)
Wrong_TotalsFirst == [plans |-> <<"out", "in", "budgets">>, flows |-> <<"in", "out">>,
                      export |-> <<"out", "in">>]
Queries == [plans |-> <<"budgets", "out", "in">>, flows |-> <<"in", "out">>,
            export |-> <<"out", "in">>]

AsksFor(ps, qs) ==
    [k \in 1..(Len(ps) * Len(qs)) |->
        [plan |-> ps[((k - 1) \div Len(qs)) + 1], what |-> qs[((k - 1) % Len(qs)) + 1]]]

-----------------------------------------------------------------------------
(* The requests. *)

Admit(r, k, ps) ==
    /\ kind[r] = None
    /\ kind' = [kind EXCEPT ![r] = k]
    /\ asks' = [asks EXCEPT ![r] = AsksFor(ps, Queries[k])]
    /\ began' = [began EXCEPT ![r] = amount]
    /\ UNCHANGED <<amount, limit, rows, totals, edits>>

ListPlans(r)    == Admit(r, "plans", PlanOrder)
MoneyFlows(r, p) == Admit(r, "flows", <<p>>)

(* The export keeps the plans whose window meets the requested days, in    *)
(* the order of the listing.                                               *)
Above(p, q) == \E i, j \in DOMAIN PlanOrder : i < j /\ PlanOrder[i] = p /\ PlanOrder[j] = q

Listings(P) ==
    {ps \in [1..Cardinality(P) -> P] : \A i, j \in DOMAIN ps : i < j => Above(ps[i], ps[j])}

ExportPlans(r, from, to) ==
    \E ps \in Listings({p \in Plans : Window[p] \cap (from..to) # {}}) : Admit(r, "export", ps)

Query(r) ==
    /\ asks[r] # <<>>
    /\ asks' = [asks EXCEPT ![r] = Tail(@)]
    /\ LET p == Head(asks[r]).plan
           what == Head(asks[r]).what
           budgeted == {c \in Categories : limit[p][c] # Absent}
       IN  IF what = "budgets"
           THEN /\ rows' = [rows EXCEPT ![r] = @ \cup
                       {[plan |-> p, category |-> c, limit |-> limit[p][c],
                         consumed |-> Consumed(p, c),
                         state |-> DerivedState(CategoryType[c], limit[p][c], Consumed(p, c))]
                           : c \in budgeted}]
                /\ UNCHANGED totals
           ELSE /\ totals' = [totals EXCEPT ![r][p][what] =
                       IF kind[r] = "flows" THEN Flows(p, what) ELSE Total(p, what)]
                /\ UNCHANGED rows
    /\ UNCHANGED <<amount, limit, kind, began, edits>>

(* insert_allocations, by this user or another one. *)
Allocate(l) ==
    /\ SumFunction(amount) < MaxUnits
    /\ amount' = [amount EXCEPT ![l] = @ + 1]
    /\ UNCHANGED <<limit, readerVars, edits>>

Edit == edits < MaxEdits /\ edits' = edits + 1

(* add_budget: UNIQUE (plan_id, category_id) refuses a second one. *)
AddBudget(p, c, l) ==
    /\ limit[p][c] = Absent
    /\ limit' = [limit EXCEPT ![p][c] = l]
    /\ Edit
    /\ UNCHANGED <<amount, readerVars>>

UpdateBudget(p, c, l) ==
    /\ limit[p][c] # Absent
    /\ limit' = [limit EXCEPT ![p][c] = l]
    /\ Edit
    /\ UNCHANGED <<amount, readerVars>>

Next ==
    \/ \E r \in Readers :
          \/ ListPlans(r) \/ Query(r)
          \/ \E p \in Plans : MoneyFlows(r, p)
          \/ \E from, to \in Days : from <= to /\ ExportPlans(r, from, to)
    \/ \E l \in Lines : Allocate(l)
    \/ \E p \in Plans, c \in Categories, l \in Limits \cup {None} :
          AddBudget(p, c, l) \/ UpdateBudget(p, c, l)

Spec == Init /\ [][Next]_vars

-----------------------------------------------------------------------------
(* Properties. *)

Done(r, k) == kind[r] = k /\ asks[r] = <<>>
Budgeted(r, p, type) == {b \in rows[r] : b.plan = p /\ CategoryType[b.category] = type}
SumConsumed(B) == SumFunction([b \in B |-> b.consumed])

(* In one answer the categories' consumption never exceeds the plan's      *)
(* total of that direction, although the figures come from different       *)
(* moments: the budgets are read before the totals and the sums only grow. *)
BudgetsWithinTotals ==
    \A r \in Readers : Done(r, "plans") => \A p \in Plans :
        /\ SumConsumed(Budgeted(r, p, "expense")) <= totals[r][p].out
        /\ SumConsumed(Budgeted(r, p, "income")) <= totals[r][p].in

(* "The overall total_cap ... on top of the per-category budgets": a plan  *)
(* is shown in at least as bad a state as each of its expense budgets      *)
(* whose limit is not below the cap.                                       *)
CapCoversBudgets ==
    \A r \in Readers : Done(r, "plans") => \A p \in {q \in Plans : Cap[q] # None} :
        \A b \in Budgeted(r, p, "expense") : b.limit # None /\ b.limit >= Cap[p] =>
            StateRank[b.state] <= StateRank[CapState(p, totals[r][p])]

(* A total never lies: it is at least what was allocated when the request  *)
(* came in, and at most what is allocated now, whichever endpoint it is    *)
(* of: Money In / Money Out are "the exact rows that would sum to          *)
(* total_income / total_expenditure", and the export's totals are          *)
(* "computed the same way".                                                *)
TotalsAreBetween ==
    \A r \in Readers, p \in Plans, d \in {"in", "out"} : totals[r][p][d] # None =>
        /\ SumFunctionOnSet(began[r], Counted(p, d)) <= totals[r][p][d]
        /\ totals[r][p][d] <= Total(p, d)

(* Ownership is enforced in "every other endpoint in this codebase": the   *)
(* totals of a user's plan are sums of that user's own allocations.        *)
TotalsAreOwn ==
    \A r \in Readers, p \in Plans, d \in {"in", "out"} : totals[r][p][d] # None =>
        totals[r][p][d] <= SumFunctionOnSet(amount, {l \in Counted(p, d) : LineOf[l].own})
=============================================================================
