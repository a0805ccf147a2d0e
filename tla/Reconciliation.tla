--------------------------- MODULE Reconciliation ---------------------------
(***************************************************************************)
(* Reconciling transactions with categories (app/api/transactions.py:      *)
(* POST /transactions/{id}/allocations and POST /transactions/bulk-        *)
(* allocate), and the budget alerts each request then raises               *)
(* (app/repositories/notifications.py).  Requests of one user run          *)
(* concurrently; each of their queries is a step of its own and none of    *)
(* them shares a database transaction with another.                        *)
(*                                                                         *)
(* The allocations table is append-only, so it is kept as the two sums the *)
(* code reads from it.  Amounts are whole cents.                           *)
(***************************************************************************)
EXTENDS Integers, FiniteSets, Functions, BudgetState

CONSTANTS Requests, Txns, Categories, Budgets, Days, None, Absent,
          Amount,         \* transactions.amount
          Direction,      \* transactions.direction
          Day,            \* transactions.txn_date together with its currency
          CategoryType,   \* categories.type
          CategoryOf,     \* budgets.category_id
          Window,         \* the days of each budget's plan, in its currency
          Limits,         \* values of budgets.limit_amount
          NearThreshold,  \* users.near_threshold, in percent
          Splits,         \* what a split request may ask for (see SplitBody)
          MaxInFlight,    \* bound: requests served at the same time
          MaxBatch,       \* bound: transactions of one bulk request
          MaxFaults,      \* bound: store failures, lost replies, crashes
          MaxEdits        \* bound: budgets added or changed

ASSUME ConstantsAssumption ==
    /\ Amount \in [Txns -> Nat \ {0}]
    /\ Direction \in [Txns -> {"in", "out"}]
    /\ Day \in [Txns -> Days]
    /\ CategoryType \in [Categories -> {"expense", "income"}]
    /\ CategoryOf \in [Budgets -> Categories]
    /\ Window \in [Budgets -> SUBSET Days]
    /\ Limits \subseteq Nat
    /\ NearThreshold \in 1..99
    /\ Splits \subseteq [total : Nat, share : [Categories -> Nat]]
    /\ None \notin Categories /\ None \notin Limits /\ Absent \notin Limits \cup {None}
    /\ MaxFaults \in Nat /\ MaxEdits \in Nat

ASSUME FiniteTables == IsFiniteSet(Txns)

VARIABLES
    allocated,  \* SUM(original_amount) over the allocations of a transaction
    spent,      \* SUM(amount) of a category, by transaction
    limit,      \* budgets.limit_amount: None is uncapped, Absent is no row
    notes,      \* the budget_alert rows of notifications
    pc,         \* where each request stands
    body,       \* its request body
    seen,       \* the sums it read for the remaining-amount check
    writes,     \* the rows it inserts: per transaction, and per category
    before,     \* history: consumption of each budget just before the insert
    todo,       \* the (category, day) groups left to alert for
    group,      \* the group generate_budget_alerts was called for
    found,      \* the budgets, with their limits, it has still to look at
    alert,      \* the alert it is about to insert
    faults, edits

requestVars == <<pc, body, seen, writes, before, todo, group, found, alert>>
vars == <<allocated, spent, limit, notes, requestVars, faults, edits>>

(* A split request: the transaction, the sum of its splits (zero stands    *)
(* for a request with a non-positive split) and how much of it goes to     *)
(* each category; the rest is transfers and splits without category.       *)
SplitBody == [kind : {"splits"}, txn : Txns, split : Splits]
BulkBody  == [kind : {"bulk"},
              pick : UNION {[S -> Categories \cup {None}] : S \in SUBSET Txns}]
Found     == [budget : Budgets, limit : Limits \cup {None}]
Alert     == [by : Requests, day : Days, budget : Budgets, limit : Limits,
              state : {"near", "at", "over"}]
Writes    == [total : [Txns -> Nat], share : [Categories -> [Txns -> Nat]]]
Busy      == {"read", "insert", "alerts", "notify", "reread"}
Pc        == {"idle", "rejected", "done", "failed"} \cup Busy

ASSUME NoneAssumption == None \notin Alert

TypeOK ==
    /\ allocated \in [Txns -> Nat]
    /\ spent \in [Categories -> [Txns -> Nat]]
    /\ limit \in [Budgets -> Limits \cup {None, Absent}]
    /\ notes \subseteq Alert
    /\ pc \in [Requests -> Pc]
    /\ body \in [Requests -> SplitBody \cup BulkBody \cup {None}]
    /\ seen \in [Requests -> [Txns -> Nat]]
    /\ writes \in [Requests -> Writes]
    /\ todo \in [Requests -> SUBSET (Categories \X Days)]
    /\ group \in [Requests -> (Categories \X Days) \cup {None}]
    /\ found \in [Requests -> SUBSET Found]
    /\ alert \in [Requests -> Alert \cup {None}]
    /\ faults \in 0..MaxFaults
    /\ edits \in 0..MaxEdits

NoWrites == [total |-> [t \in Txns |-> 0],
             share |-> [c \in Categories |-> [t \in Txns |-> 0]]]

Init ==
    /\ allocated = [t \in Txns |-> 0]
    /\ spent = [c \in Categories |-> [t \in Txns |-> 0]]
    /\ limit \in [Budgets -> Limits \cup {None, Absent}]
    /\ notes = {}
    /\ pc = [r \in Requests |-> "idle"]
    /\ body = [r \in Requests |-> None]
    /\ seen = [r \in Requests |-> [t \in Txns |-> 0]]
    /\ writes = [r \in Requests |-> NoWrites]
    /\ before = [r \in Requests |-> [b \in Budgets |-> 0]]
    /\ todo = [r \in Requests |-> {}]
    /\ group = [r \in Requests |-> None]
    /\ found = [r \in Requests |-> {}]
    /\ alert = [r \in Requests |-> None]
    /\ faults = 0
    /\ edits = 0

-----------------------------------------------------------------------------
(* Helpers. *)

(* SUM(amount) of a budget's category over its plan's window. *)
Covered(b)  == {t \in Txns : Day[t] \in Window[b]}
Consumed(b) == SumFunctionOnSet(spent[CategoryOf[b]], Covered(b))

(* A category's type must match the transaction's direction. *)
ExpectedType(t) == IF Direction[t] = "out" THEN "expense" ELSE "income"
Fits(t, c)      == CategoryType[c] = ExpectedType(t)

(* What is left of a transaction; the bulk endpoint skips one with nothing *)
(* left.                                                                   *)
Wrong_PartialNotCompleted(t) == IF allocated[t] > 0 THEN 0 ELSE Amount[t]
Remaining(t) == IF allocated[t] < Amount[t] THEN Amount[t] - allocated[t] ELSE 0

(* The over-allocation guard of the split endpoint. *)
Wrong_OwnTotalOnly(t, total) == total > Amount[t]
Exceeds(t, total)            == allocated[t] + total > Amount[t]

(* The rows of a request, as the sums they add to. *)
SplitWrites(t, split) ==
    [total |-> [u \in Txns |-> IF u = t THEN split.total ELSE 0],
     share |-> [c \in Categories |-> [u \in Txns |-> IF u = t THEN split.share[c] ELSE 0]]]
BulkWrites(pick) ==
    [total |-> [t \in Txns |-> IF t \in DOMAIN pick THEN Remaining(t) ELSE 0],
     share |-> [c \in Categories |-> [t \in Txns |->
                   IF t \in DOMAIN pick /\ pick[t] = c THEN Remaining(t) ELSE 0]]]

(* The groups alerts are generated for, and the sum of a group's rows: by  *)
(* category, date and currency.                                            *)
Groups(w) ==
    {g \in Categories \X Days : \E t \in Txns : Day[t] = g[2] /\ w.share[g[1]][t] > 0}
NewAmount(r) ==
    SumFunctionOnSet(writes[r].share[group[r][1]], {t \in Txns : Day[t] = group[r][2]})

(* What follows the alerts: the split endpoint reads its answer again. *)
AfterAlerts(r) == IF body[r].kind = "splits" THEN "reread" ELSE "done"

(* generate_budget_alerts' live sum, and whether the state went up. *)
Wrong_NewAmountAddedAgain(r, b) == Consumed(b) + NewAmount(r)
ConsumedAfter(r, b)             == Consumed(b)
Wrong_SameStateAgain(from, to)  == to # "ok" /\ StateRank[to] >= StateRank[from]
Crosses(from, to)               == to # "ok" /\ StateRank[to] > StateRank[from]

InFlight == {r \in Requests : pc[r] \in Busy}
Fault    == faults < MaxFaults /\ faults' = faults + 1
Go(r, next) == pc' = [pc EXCEPT ![r] = next]

-----------------------------------------------------------------------------
(* The two endpoints up to the insert. *)

(* The checks that read only what no request changes come first. *)
PostSplits(r, t, split) ==
    /\ pc[r] = "idle"
    /\ Cardinality(InFlight) < MaxInFlight
    /\ IF split.total > 0 /\ \A c \in Categories : split.share[c] > 0 => Fits(t, c)
       THEN /\ Go(r, "read")
            /\ body' = [body EXCEPT ![r] = [kind |-> "splits", txn |-> t, split |-> split]]
       ELSE Go(r, "rejected") /\ UNCHANGED body
    /\ UNCHANGED <<allocated, spent, limit, notes, seen, writes, before, todo, group,
                   found, alert, faults, edits>>

PostBulk(r, pick) ==
    /\ pc[r] = "idle"
    /\ Cardinality(InFlight) < MaxInFlight
    /\ IF DOMAIN pick # {} /\ \A t \in DOMAIN pick : pick[t] # None => Fits(t, pick[t])
       THEN Go(r, "read") /\ body' = [body EXCEPT ![r] = [kind |-> "bulk", pick |-> pick]]
       ELSE Go(r, "rejected") /\ UNCHANGED body
    /\ UNCHANGED <<allocated, spent, limit, notes, seen, writes, before, todo, group,
                   found, alert, faults, edits>>

(* get_allocations, and the check of the total against what is left. *)
ReadSplit(r) ==
    LET t == body[r].txn
        split == body[r].split
    IN
    /\ pc[r] = "read"
    /\ body[r].kind = "splits"
    /\ seen' = [seen EXCEPT ![r] = allocated]
    /\ IF Exceeds(t, split.total)
       THEN Go(r, "rejected") /\ UNCHANGED writes
       ELSE Go(r, "insert") /\ writes' = [writes EXCEPT ![r] = SplitWrites(t, split)]
    /\ UNCHANGED <<allocated, spent, limit, notes, body, before, todo, group, found,
                   alert, faults, edits>>

(* get_transactions_with_allocated: each transaction gets what it lacks,   *)
(* and one that lacks nothing is skipped.                                  *)
ReadBulk(r) ==
    LET pick == body[r].pick IN
    /\ pc[r] = "read"
    /\ body[r].kind = "bulk"
    /\ seen' = [seen EXCEPT ![r] = allocated]
    /\ IF \A t \in DOMAIN pick : Remaining(t) = 0
       THEN Go(r, "done") /\ UNCHANGED writes
       ELSE Go(r, "insert") /\ writes' = [writes EXCEPT ![r] = BulkWrites(pick)]
    /\ UNCHANGED <<allocated, spent, limit, notes, body, before, todo, group, found,
                   alert, faults, edits>>

(* insert_allocations / insert_bulk_allocations: one INSERT, all or        *)
(* nothing, with no check of its own.  Its reply may be lost.              *)
Insert(r) ==
    LET w == writes[r] IN
    /\ pc[r] = "insert"
    /\ allocated' = [t \in Txns |-> allocated[t] + w.total[t]]
    /\ spent' = [c \in Categories |-> [t \in Txns |-> spent[c][t] + w.share[c][t]]]
    /\ before' = [before EXCEPT ![r] = [b \in Budgets |-> Consumed(b)]]
    /\ \/ Go(r, "alerts") /\ todo' = [todo EXCEPT ![r] = Groups(w)] /\ UNCHANGED faults
       \/ Go(r, "failed") /\ Fault /\ UNCHANGED todo
    /\ UNCHANGED <<limit, notes, body, seen, writes, group, found, alert, edits>>

-----------------------------------------------------------------------------
(* generate_budget_alerts, group after group and budget after budget. *)

(* The category, the threshold and the budgets that cover the date. *)
NextGroup(r) ==
    /\ pc[r] = "alerts"
    /\ found[r] = {}
    /\ \E g \in todo[r] :
          /\ todo' = [todo EXCEPT ![r] = @ \ {g}]
          /\ group' = [group EXCEPT ![r] = g]
          /\ found' = [found EXCEPT ![r] =
                {[budget |-> b, limit |-> limit[b]] : b \in
                    {x \in Budgets : /\ CategoryType[g[1]] = "expense"
                                     /\ limit[x] # Absent
                                     /\ CategoryOf[x] = g[1]
                                     /\ g[2] \in Window[x]}}]
    /\ UNCHANGED <<allocated, spent, limit, notes, pc, body, seen, writes, before,
                   alert, faults, edits>>

(* The sum of one budget, now; the state before is what it would be        *)
(* without this group's rows.  An uncapped budget is passed over.          *)
Evaluate(r, e) ==
    LET after == ConsumedAfter(r, e.budget)
        from  == ExpenseState(e.limit, after - NewAmount(r), NearThreshold)
        to    == ExpenseState(e.limit, after, NearThreshold)
    IN
    /\ pc[r] = "alerts"
    /\ e \in found[r]
    /\ found' = [found EXCEPT ![r] = @ \ {e}]
    /\ IF e.limit # None /\ Crosses(from, to)
       THEN /\ Go(r, "notify")
            /\ alert' = [alert EXCEPT ![r] = [by |-> r, day |-> group[r][2],
                             budget |-> e.budget, limit |-> e.limit, state |-> to]]
       ELSE UNCHANGED <<pc, alert>>
    /\ UNCHANGED <<allocated, spent, limit, notes, body, seen, writes, before, todo,
                   group, faults, edits>>

(* INSERT INTO notifications *)
Notify(r) ==
    /\ pc[r] = "notify"
    /\ notes' = notes \cup {alert[r]}
    /\ alert' = [alert EXCEPT ![r] = None]
    /\ Go(r, "alerts")
    /\ UNCHANGED <<allocated, spent, limit, body, seen, writes, before, todo, group,
                   found, faults, edits>>

(* Nothing left to alert for. *)
AlertsDone(r) ==
    /\ pc[r] = "alerts"
    /\ todo[r] = {} /\ found[r] = {}
    /\ Go(r, AfterAlerts(r))
    /\ UNCHANGED <<allocated, spent, limit, notes, body, seen, writes, before, todo,
                   group, found, alert, faults, edits>>

(* An exception while alerting is logged and ends the alerting only; the   *)
(* notification it was inserting may have been written.                    *)
AlertsFail(r) ==
    /\ pc[r] \in {"alerts", "notify"}
    /\ notes' \in {notes} \cup {notes \cup {a} : a \in {alert[r]} \ {None}}
    /\ Go(r, AfterAlerts(r))
    /\ todo' = [todo EXCEPT ![r] = {}]
    /\ found' = [found EXCEPT ![r] = {}]
    /\ alert' = [alert EXCEPT ![r] = None]
    /\ Fault
    /\ UNCHANGED <<allocated, spent, limit, body, seen, writes, before, group, edits>>

(* The answer: the transaction and its allocations, read again. *)
Reread(r) ==
    /\ pc[r] = "reread"
    /\ Go(r, "done")
    /\ UNCHANGED <<allocated, spent, limit, notes, body, seen, writes, before, todo,
                   group, found, alert, faults, edits>>

(* A call outside the alerting fails without effect (a 500), or the API    *)
(* process stops at any point.                                             *)
RequestFails(r) ==
    /\ pc[r] \in Busy
    /\ Go(r, "failed")
    /\ todo' = [todo EXCEPT ![r] = {}]
    /\ found' = [found EXCEPT ![r] = {}]
    /\ alert' = [alert EXCEPT ![r] = None]
    /\ Fault
    /\ UNCHANGED <<allocated, spent, limit, notes, body, seen, writes, before, group, edits>>

-----------------------------------------------------------------------------
(* add_budget and update_budget. *)
SetLimit(b, l) ==
    /\ l # limit[b]
    /\ limit' = [limit EXCEPT ![b] = l]
    /\ edits < MaxEdits /\ edits' = edits + 1
    /\ UNCHANGED <<allocated, spent, notes, requestVars, faults>>

Picks == UNION {[S -> Categories \cup {None}] :
                   S \in {T \in SUBSET Txns : Cardinality(T) <= MaxBatch}}

Next ==
    \/ \E r \in Requests :
          \/ \E t \in Txns, split \in Splits : PostSplits(r, t, split)
          \/ \E pick \in Picks : PostBulk(r, pick)
          \/ ReadSplit(r) \/ ReadBulk(r) \/ Insert(r)
          \/ NextGroup(r) \/ \E e \in found[r] : Evaluate(r, e)
          \/ Notify(r) \/ AlertsDone(r) \/ AlertsFail(r) \/ Reread(r) \/ RequestFails(r)
    \/ \E b \in Budgets, l \in Limits \cup {None} : SetLimit(b, l)

Spec == Init /\ [][Next]_vars

-----------------------------------------------------------------------------
(* Properties. *)

(* What "can't exceed the transaction's own amount" (ab-59) promises; true *)
(* of the code as long as requests are served one after the other.         *)
NeverOverAllocated == \A t \in Txns : allocated[t] <= Amount[t]

(* The only way past a transaction's amount is an insert checked against a *)
(* sum that another request has changed since: whatever the mix of split   *)
(* and bulk requests, retries and failures, a check that is still current  *)
(* when its rows are inserted is never wrong.                              *)
OnlyRacesOverAllocate ==
    [][\A t \in Txns : allocated'[t] > Amount[t] /\ allocated'[t] # allocated[t] =>
          \E r \in Requests : pc[r] = "insert" /\ pc'[r] # "insert" /\ seen[r][t] # allocated[t]
      ]_vars

(* A bulk request that was answered left every transaction it named        *)
(* reconciled ("each transaction gets exactly its own remaining balance"), *)
(* the updated and the skipped ones alike, whatever ran at the same time.  *)
BulkReconciles ==
    \A r \in Requests :
        pc[r] = "done" /\ body[r].kind = "bulk" =>
            \A t \in DOMAIN body[r].pick : allocated[t] >= Amount[t]

(* An alert never cries wolf: the consumption it announces was reached for *)
(* the limit it was derived from, and, allocations being append-only,      *)
(* still is.                                                               *)
AlertsAreTrue ==
    \A n \in notes :
        StateRank[ExpenseState(n.limit, Consumed(n.budget), NearThreshold)] >= StateRank[n.state]

AlertsFor(r, b) == Cardinality({n \in notes : n.by = r /\ n.budget = b})

(* What a request does to a budget, had nobody else allocated.             *)
Added(r, b)   == SumFunctionOnSet(writes[r].share[CategoryOf[b]], Covered(b))
Crossed(r, b) ==
    StateRank[ExpenseState(limit[b], before[r][b] + Added(r, b), NearThreshold)]
        > StateRank[ExpenseState(limit[b], before[r][b], NearThreshold)]
Alertable == {b \in Budgets : limit[b] \in Limits /\ CategoryType[CategoryOf[b]] = "expense"}

(* generate_budget_alerts "raises exactly one budget_alert notification    *)
(* per budget whose derived state crosses UP into near/at/over as a        *)
(* result" of a request, and none for the others: for a budget that a      *)
(* single group of the request reaches and nobody else has allocated to    *)
(* since, however requests for other budgets or for the same one           *)
(* interleave, as long as nothing fails and no limit is edited.            *)
OneAlertUndisturbed ==
    faults = 0 /\ edits = 0 =>
        \A r \in Requests : pc[r] = "done" =>
            \A b \in Alertable :
                /\ Consumed(b) = before[r][b] + Added(r, b)
                /\ Cardinality({g \in Groups(writes[r]) : g[1] = CategoryOf[b] /\ g[2] \in Window[b]}) <= 1
                => AlertsFor(r, b) = IF Crossed(r, b) THEN 1 ELSE 0
=============================================================================
