------------------------------- MODULE Reports --------------------------------
(***************************************************************************)
(* What one user's reports say (repositories/reports.py and dashboard.py)  *)
(* of the transactions and allocations there are.  Each report is a single *)
(* query and an aggregation of its rows.  Names, colours and the three     *)
(* renderings (JSON, CSV, PDF) of a report are left out.                   *)
(***************************************************************************)
EXTENDS Integers, Sequences, FiniteSets, FiniteSetsExt, SequencesExt

CONSTANTS Accounts, Currencies, Categories, Days,
          CategoryType,   \* categories.type
          NoCategory,     \* an allocation without category or reason
          Transfer,       \* one with a transfer reason
          Everything,     \* a filter that is not given
          NoBalance       \* transactions.balance_after of a manual entry

VARIABLES
    currencyOf,    \* accounts.currency, fixed when the account is created
    transactions,  \* in the order they were inserted
    allocations    \* in the order they were inserted

Directions == {"in", "out"}

ASSUME ReportsAssumption ==
    /\ NoCategory \notin Categories /\ Transfer \notin Categories /\ NoCategory # Transfer
    /\ Everything \notin Accounts \cup Directions
    /\ NoBalance \notin Int
    /\ CategoryType \in [Categories -> {"expense", "income"}]
    /\ Days \subseteq Nat

Txn == DOMAIN transactions

AllocationsOf(t) == {a \in DOMAIN allocations : allocations[a].txn = t}

SumOf(S, F(_)) == SumFunctionOnSet([x \in S |-> F(x)], S)

AmountOf(t)    == transactions[t].amount
Allocation(a)  == allocations[a].amount
Sum(S)         == SumOf(S, AmountOf)
SumAllocs(A)   == SumOf(A, Allocation)
Allocated(t)   == SumAllocs(AllocationsOf(t))
HasTransfer(t) == \E a \in AllocationsOf(t) : allocations[a].target = Transfer

-----------------------------------------------------------------------------
(* GET /reports and its exports. *)

Filter == [currency : Currencies, account : Accounts \cup {Everything}, from : Days, to : Days,
           direction : Directions \cup {Everything}]

Matching(f) ==
    {t \in Txn : LET x == transactions[t]
                 IN  /\ x.currency = f.currency /\ x.day \in f.from..f.to
                     /\ f.account \in {x.account, Everything}
                     /\ f.direction \in {x.direction, Everything}}

(* A transaction with a transfer among its allocations does not count, not *)
(* even the part of it that is no transfer.                                *)
Moved(S, direction) ==
    Sum({t \in S : transactions[t].direction = direction /\ ~HasTransfer(t)})

(* A bug: what is over-allocated is set off against other transactions. *)
Wrong_NotFloored(S) == SumOf(S, LAMBDA t : AmountOf(t) - Allocated(t))

(* The remainder of each transaction, transfers included, floored at 0. *)
Unreconciled(S) ==
    SumOf(S, LAMBDA t : IF Allocated(t) < AmountOf(t) THEN AmountOf(t) - Allocated(t) ELSE 0)

Filed(S, target) ==
    SumAllocs({a \in DOMAIN allocations :
                  allocations[a].txn \in S /\ allocations[a].target = target})

(* build_report *)
Report(f) ==
    LET S == Matching(f)
    IN  [in |-> Moved(S, "in"), out |-> Moved(S, "out"),
         category |-> [c \in Categories |-> Filed(S, c)],
         noCategory |-> Filed(S, NoCategory),
         unreconciled |-> Unreconciled(S)]

(* get_category_summary: the report's own figures, of one type. *)
CategorySummary(f, type) ==
    SumOf({c \in Categories : CategoryType[c] = type}, LAMBDA c : Report(f).category[c])

-----------------------------------------------------------------------------
(* GET /reports/transfers: of any currency; the account is the source of a *)
(* transfer or the one its transaction is on.                              *)
Transfers(account, from, to) ==
    {a \in DOMAIN allocations :
        LET x == transactions[allocations[a].txn]
        IN  /\ allocations[a].target = Transfer /\ x.day \in from..to
            /\ account \in {Everything, x.account, allocations[a].source}}

(* GET /reports/accounts: what is allocated, transfers left out, of all time. *)
AccountSummary(account) ==
    [d \in Directions |->
        SumAllocs({a \in DOMAIN allocations :
                      LET x == transactions[allocations[a].txn]
                      IN  /\ x.account = account /\ x.direction = d
                          /\ allocations[a].target # Transfer})]

(* GET /dashboard: the accounts of a currency, with all that is on them.   *)
DashboardAccounts(currency) == {acc \in Accounts : currencyOf[acc] = currency}

(* A bug: transfers are money in and out. *)
Wrong_TransfersCounted(currency, from, to) ==
    [acc \in DashboardAccounts(currency) |->
        [d \in Directions |->
            Sum({t \in Txn : /\ transactions[t].account = acc /\ transactions[t].day \in from..to
                             /\ transactions[t].direction = d})]]

Dashboard(currency, from, to) ==
    [acc \in DashboardAccounts(currency) |->
        [d \in Directions |->
            Moved({t \in Txn : transactions[t].account = acc /\ transactions[t].day \in from..to}, d)]]

-----------------------------------------------------------------------------
(* GET /reports/transaction-statement: one account, oldest first, with a   *)
(* balance replayed from the earliest row that states one.                 *)

Signed(t) == IF transactions[t].direction = "in" THEN AmountOf(t) ELSE -AmountOf(t)

(* ORDER BY txn_date, created_at: rows of one INSERT are created at once   *)
(* and come in any order.                                                  *)
Orders(account) ==
    LET Before(t, u) == \/ transactions[t].day < transactions[u].day
                        \/ /\ transactions[t].day = transactions[u].day
                           /\ transactions[t].batch < transactions[u].batch
    IN  {s \in SetToSeqs({t \in Txn : transactions[t].account = account}) :
            \A i, j \in DOMAIN s : i < j => ~Before(s[j], s[i])}

Stating(order) == {i \in DOMAIN order : transactions[order[i]].balance # NoBalance}

Net(order, n) == SumOf(1..n, LAMBDA i : Signed(order[i]))

(* A bug: what comes before the anchor is not undone. *)
Wrong_FromTheAnchor(order) ==
    LET i == Min(Stating(order))
    IN  transactions[order[i]].balance - Signed(order[i])

(* The balance before the first row ever: the anchor's, less its own and   *)
(* all earlier movements.                                                  *)
StartingBalance(order) ==
    LET i == Min(Stating(order)) IN transactions[order[i]].balance - Net(order, i)

(* The balance shown at each row, whether it is displayed or not. *)
RunningBalance(order, n) == StartingBalance(order) + Net(order, n)

(* build_transaction_statement, of a window: no balances without an        *)
(* anchor; an empty window opens and closes with the starting balance.     *)
Statement(order, from, to) ==
    LET shown == {i \in DOMAIN order : transactions[order[i]].day \in from..to}
        opening == IF shown = {} THEN StartingBalance(order) ELSE RunningBalance(order, Min(shown) - 1)
    IN  IF Stating(order) = {} THEN [opening |-> NoBalance, closing |-> NoBalance]
        ELSE [opening |-> opening,
              closing |-> IF shown = {} THEN opening ELSE RunningBalance(order, Max(shown))]
=============================================================================
