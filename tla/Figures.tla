-------------------------------- MODULE Figures --------------------------------
(***************************************************************************)
(* From what a bank books to what the reports say.  A bank has booked      *)
(* movements on one account and prints statements of them; statements are  *)
(* imported in any order and overlap; entries are added by hand, and       *)
(* transactions are allocated.  The pipeline of an import, the checks of a *)
(* split and the account's book balance have modules of their own: an      *)
(* import is one step here.  What the bank books later changes nothing: a  *)
(* statement from before that is one that ends earlier.                    *)
(***************************************************************************)
EXTENDS StatementParsing, Reports

CONSTANTS
    Account,      \* the account the bank's statements are of
    BankOpening,  \* what the bank held before it booked anything
    MaxTime,      \* the last moment anything is booked
    ManualAmount, SplitAmounts,
    Setups        \* the cases looked at: layout, books, currencies, bounds

VARIABLES
    setup,
    bank,    \* its movements: time, text and what is wrapped below its line,
             \* delta and, for M-Pesa's overdraft rows, that the balance
             \* printed is that of the debt
    imports  \* the statements imported so far, accepted or refused

figures == <<setup, bank, imports, currencyOf, transactions, allocations>>

DayOf(time) == (time + 1) \div 2

Movement == [time : 1..MaxTime, text : STRING, below : Seq(STRING), delta : Int \ {0}, debt : BOOLEAN]

(* A printed statement's heading (letterhead, account, period, columns) is *)
(* on top of each page; pages begin with these movements and the first.    *)
Furniture == [heading : STRING, pages : SUBSET Nat]

(* A bank books in time, nothing that moves no money, and only M-Pesa has  *)
(* rows that print a debt.                                                 *)
ASSUME FiguresAssumption ==
    /\ Account \in Accounts /\ MaxTime \in Nat \ {0} /\ {DayOf(t) : t \in 1..MaxTime} \subseteq Days
    /\ BankOpening \in Int /\ ManualAmount \in Nat \ {0} /\ SplitAmounts \subseteq Nat \ {0}
    /\ "KES" \in Currencies /\ None \notin Int \cup [closing : Int, credit : Int, debit : Int]
    /\ \A s \in Setups :
          /\ s.provider \in {"NCBA Bank", "Equity Bank", "Mentor Sacco", "M-Pesa"}
          /\ s.named \in Currencies \cup {None} /\ s.currencies \in [Accounts -> Currencies]
          /\ s.furniture \subseteq Furniture
          /\ \A b \in s.books :
                /\ b \in Seq(Movement) /\ \A i, j \in DOMAIN b : i < j => b[i].time <= b[j].time
                /\ \A i \in DOMAIN b : b[i].debt => s.provider = "M-Pesa"

ASSUME FiniteTables ==
    IsFiniteSet(Accounts) /\ IsFiniteSet(Currencies) /\ IsFiniteSet(Categories) /\ IsFiniteSet(Days)

-----------------------------------------------------------------------------
(* The bank, and what it prints. *)

Booked(n)      == BankOpening + SumOf(1..n, LAMBDA i : bank[i].delta)
Credits(m, n)  == SumOf({i \in m..n : bank[i].delta > 0}, LAMBDA i : bank[i].delta)
Debits(m, n)   == SumOf({i \in m..n : bank[i].delta < 0}, LAMBDA i : -bank[i].delta)
Outstanding(n) == SumOf({i \in 1..n : bank[i].debt}, LAMBDA i : bank[i].delta)

LineOf(i) ==
    [time |-> bank[i].time, text |-> <<bank[i].text>>, amount |-> Abs(bank[i].delta),
     direction |-> IF bank[i].delta > 0 THEN "in" ELSE "out",
     balance |-> IF bank[i].debt THEN Outstanding(i) ELSE Booked(i)]

(* What stands above a movement's line in a statement from `first` on.     *)
Above(first, furniture, i) ==
    (IF i = first THEN <<>> ELSE bank[i - 1].below)
      \o (IF i = first \/ i \in furniture.pages THEN <<furniture.heading>> ELSE <<>>)

(* A statement of the movements first..last; its anchor is the opening     *)
(* balance or the line of totals, where the layout has one.                *)
StatementOf(first, last, lost, anchor, furniture) ==
    [lines |-> [k \in 1..last - first + 1 |-> LineOf(first + k - 1)],
     above |-> [k \in 1..last - first + 1 |-> Above(first, furniture, first + k - 1)],
     lost |-> lost,
     opening |-> IF anchor THEN Booked(first - 1) ELSE None,
     total |-> IF anchor THEN [closing |-> Booked(last), credit |-> Credits(first, last), debit |-> Debits(first, last)]
               ELSE None]

StartsADay(i) == \A j \in 1..i - 1 : DayOf(bank[j].time) # DayOf(bank[i].time)

-----------------------------------------------------------------------------
(* Imports and manual entries: a batch is one INSERT. *)

NextBatch == 1 + Cardinality({transactions[t].batch : t \in Txn})

Posted == {t \in Txn : transactions[t].balance # NoBalance}

(* The rows that have a fingerprint of their own, in their order. *)
Fresh(rows) ==
    LET known  == {Fingerprint(transactions[t]) : t \in Posted}
        isNew  == {i \in DOMAIN rows :
                      Fingerprint(rows[i]) \notin known \cup {Fingerprint(rows[j]) : j \in 1..i - 1}}
        before == {p \in isNew \X isNew : p[1] < p[2]}
    IN  [k \in 1..Cardinality(isNew) |-> rows[Sorted(isNew, before)[k]]]

(* insert_transactions: ON CONFLICT (account_id, dedupe_hash) DO NOTHING *)
InsertTransactions(rows) ==
    LET fresh == Fresh(rows)
        RowOf(row) == [account |-> Account, day |-> DayOf(row.time), amount |-> row.amount,
                       direction |-> row.direction, text |-> row.text, balance |-> row.balance,
                       currency |-> StatementCurrency(setup.provider, setup.named), batch |-> NextBatch]
    IN  transactions \o [k \in DOMAIN fresh |-> RowOf(fresh[k])]

(* process_job: a statement the parser refuses posts nothing. *)
ImportStatement(first, last, lost, anchor, furniture) ==
    LET rows == Parse(setup.provider, StatementOf(first, last, lost, anchor, furniture))
    IN  /\ Len(imports) < setup.imports /\ StartsADay(first)
        /\ (lost # 0 \/ anchor # setup.anchored) => setup.faults
        /\ imports' = Append(imports, [first |-> first, last |-> last, lost |-> lost, anchor |-> anchor,
                                       furniture |-> furniture, accepted |-> rows # None,
                                       opening |-> IF rows = None THEN None ELSE DerivedOpening(rows)])
        /\ transactions' = IF rows = None THEN transactions ELSE InsertTransactions(rows)
        /\ UNCHANGED <<setup, bank, currencyOf, allocations>>

Manual == Txn \ Posted

(* insert_manual_transactions: never a duplicate, never a balance. *)
EnterManually(account, day, direction) ==
    /\ Cardinality(Manual) < setup.manual
    /\ transactions' = Append(transactions,
           [account |-> account, day |-> day, amount |-> ManualAmount, direction |-> direction,
            text |-> None, balance |-> NoBalance, currency |-> currencyOf[account], batch |-> NextBatch])
    /\ UNCHANGED <<setup, bank, imports, currencyOf, allocations>>

Fits(target, direction) ==
    target \in Categories => CategoryType[target] = IF direction = "out" THEN "expense" ELSE "income"

(* A split checks the total it read, when other splits of its transaction  *)
(* may have been added since: it saw the first `seen` of them only.        *)
Allocate(t, target, amount, source, seen) ==
    /\ Len(allocations) < setup.allocations
    /\ Fits(target, transactions[t].direction)
    /\ SumAllocs({a \in 1..seen : allocations[a].txn = t}) + amount <= AmountOf(t)
    /\ allocations' = Append(allocations, [txn |-> t, target |-> target, amount |-> amount, source |-> source])
    /\ UNCHANGED <<setup, bank, imports, currencyOf, transactions>>

-----------------------------------------------------------------------------
Init ==
    /\ setup \in Setups
    /\ bank \in setup.books
    /\ imports = <<>> /\ transactions = <<>> /\ allocations = <<>>
    /\ currencyOf = setup.currencies

Next ==
    \/ \E first \in DOMAIN bank, anchor \in BOOLEAN, furniture \in setup.furniture :
           \E last \in first..Len(bank) : \E lost \in 0..last - first + 1 :
               ImportStatement(first, last, lost, anchor, furniture)
    \/ \E account \in Accounts, day \in Days, direction \in Directions : EnterManually(account, day, direction)
    \/ \E t \in Txn, amount \in SplitAmounts, seen \in 0..Len(allocations) :
           \/ \E target \in Categories \cup {NoCategory} : Allocate(t, target, amount, None, seen)
           \/ \E source \in Accounts \cup {None} : Allocate(t, Transfer, amount, source, seen)

Spec == Init /\ [][Next]_figures

-----------------------------------------------------------------------------
Accepted == {k \in DOMAIN imports : imports[k].accepted}
Covered  == UNION {imports[k].first..imports[k].last : k \in Accepted}
Faultless == \A k \in Accepted : imports[k].lost = 0

(* The text of a movement's row.  Equity Bank's has in it what stands above *)
(* the line, so that one movement may be read with several texts.          *)
TextIn(first, furniture, i) ==
    (IF setup.provider = "Equity Bank" THEN Above(first, furniture, i) ELSE <<>>) \o <<bank[i].text>>

Readings ==
    UNION {{<<i, TextIn(imports[k].first, imports[k].furniture, i)>> : i \in imports[k].first..imports[k].last} :
               k \in Accepted}

(* The fingerprint of a movement read with a text. *)
MarkOf(reading) == <<reading[2], Abs(bank[reading[1]].delta)>>

(* Mentor Sacco: taken for an increase when its section states no opening. *)
Misread(k) ==
    setup.provider = "Mentor Sacco" /\ ~imports[k].anchor /\ bank[imports[k].first].delta < 0

PostedAs(reading) ==
    {t \in Posted : LET x == transactions[t]
                        y == LineOf(reading[1])
                    IN  /\ x.day = DayOf(y.time) /\ x.text = reading[2] /\ x.amount = y.amount
                        /\ x.direction = y.direction}

(* Whatever statements were imported, in whatever order and however they   *)
(* overlap, each movement they cover is posted once for each text that it  *)
(* was read with, on its day, with its amount and direction; nothing else  *)
(* is posted.  Except: movements of one text and amount, of which one is   *)
(* posted, and the decreases that Mentor Sacco statements open with when   *)
(* they state no balance.                                                  *)
PostedAreMovements ==
    Faultless =>
        /\ Cardinality(Posted) = Cardinality({MarkOf(r) : r \in Readings})
        /\ \A r \in Readings :
               \/ \E q \in Readings : q[1] # r[1] /\ MarkOf(q) = MarkOf(r)
               \/ \E k \in Accepted : Misread(k) /\ imports[k].first = r[1]
               \/ Cardinality(PostedAs(r)) = 1

(* "silently skipping any row whose (account_id, dedupe_hash) already      *)
(* exists - the case where an overlapping/re-uploaded statement covers a   *)
(* transaction this account already has": however statements overlap,      *)
(* there are no more transactions than movements.                          *)
OverlapsPostOnce == Faultless => Cardinality(Posted) <= Cardinality(Covered)

LeadingLines(k) ==
    LET m == imports[k]
        size == Cardinality({i \in m.first..m.last : bank[i].time = bank[m.first].time})
    IN  [n \in 1..size |-> LineOf(m.first + n - 1)]

(* The opening balance that an import records is what the bank held before *)
(* the statement's first movement, even if a line was lost, when the       *)
(* statement states it; when it does not, if no line was lost and, for     *)
(* M-Pesa, the rows of the first moment fit in one order and none of them  *)
(* shows the overdraft's balance.                                          *)
OpeningIsTrue ==
    \A k \in Accepted :
        LET m == imports[k]
        IN  (/\ m.opening # None /\ ~Misread(k)
             /\ m.lost = 0 \/ (m.anchor /\ setup.provider # "M-Pesa")
             /\ setup.provider = "M-Pesa" =>
                    /\ Cardinality(Fitting(LeadingLines(k))) = 1
                    /\ \A n \in DOMAIN LeadingLines(k) : ~bank[m.first + n - 1].debt)
            => m.opening = Booked(m.first - 1)

-----------------------------------------------------------------------------
Excess(S) == SumOf({t \in S : Allocated(t) > AmountOf(t)}, LAMBDA t : Allocated(t) - AmountOf(t))

Categorised(r) == SumOf(Categories, LAMBDA c : r.category[c])

(* A report accounts for everything that it selects, whatever was split    *)
(* and over-allocated: what was moved, and the transactions its totals     *)
(* leave out for a transfer, are what is filed under categories, under     *)
(* none and as transfers, plus what is not reconciled, less what races     *)
(* allocated beyond the amounts.                                           *)
ReportAccountsForAll ==
    \A f \in Filter :
        LET S == Matching(f)
            r == Report(f)
            transferred == {a \in Transfers(Everything, f.from, f.to) : allocations[a].txn \in S}
        IN  r.in + r.out + Sum({t \in S : HasTransfer(t)})
              = Categorised(r) + r.noCategory + SumAllocs(transferred) + r.unreconciled - Excess(S)

FirstDay == CHOOSE d \in Days : \A e \in Days : d <= e
LastDay  == CHOOSE d \in Days : \A e \in Days : e <= d

AtHome == \A t \in Txn : transactions[t].currency = currencyOf[transactions[t].account]

(* The dashboard and the report say the same of any period, in all and per *)
(* account, when every transaction is in its account's currency; and what  *)
(* the account summary calls reconciled is what the reports of all time    *)
(* file, currency by currency.                                             *)
ViewsAgree ==
    /\ AtHome => \A c \in Currencies, from, to \in Days, d \in Directions :
           LET board == Dashboard(c, from, to)
               ReportOf(acc) == Report([currency |-> c, account |-> acc, from |-> from, to |-> to,
                                        direction |-> Everything])
           IN  /\ SumOf(DOMAIN board, LAMBDA acc : board[acc][d]) = ReportOf(Everything)[d]
               /\ \A acc \in DOMAIN board : board[acc][d] = ReportOf(acc)[d]
    /\ \A acc \in Accounts, d \in Directions :
           AccountSummary(acc)[d] =
               SumOf(Currencies, LAMBDA c :
                   LET r == Report([currency |-> c, account |-> acc, from |-> FirstDay, to |-> LastDay,
                                    direction |-> d])
                   IN  Categorised(r) + r.noCategory)

-----------------------------------------------------------------------------
(* The rows among which the statement's anchor is: the first of their day  *)
(* and batch.                                                              *)
Anchors ==
    {t \in Posted : \A u \in Posted :
        \/ transactions[t].day < transactions[u].day
        \/ transactions[t].day = transactions[u].day /\ transactions[t].batch <= transactions[u].batch}

Anchor == CHOOSE t \in Anchors : TRUE

Sound ==
    /\ Faultless /\ Covered # {} /\ Covered = Min(Covered)..Max(Covered)
    /\ \A q, r \in Readings : q[1] = r[1] <=> MarkOf(q) = MarkOf(r)
    /\ \A k \in Accepted : ~Misread(k)
    /\ Cardinality(Anchors) = 1 /\ ~bank[Min(Covered)].debt

SinceAnchor(t) ==
    \/ transactions[t].day > transactions[Anchor].day
    \/ transactions[t].day = transactions[Anchor].day /\ t > Anchor

(* What the bank held at the end of a day, and the entries made by hand. *)
Worth(day) ==
    Booked(Max({i \in Covered : DayOf(bank[i].time) <= day}))
      + SumOf({t \in Manual : transactions[t].account = Account /\ transactions[t].day <= day /\ SinceAnchor(t)},
              Signed)

(* The account's statement shows the bank's balances and the entries made  *)
(* by hand since: over any window with rows, from the first day that is    *)
(* covered, in whatever order the imports came and whatever order the rows *)
(* of one import take.  Provided the statements leave no gap and nothing   *)
(* of theirs was skipped, posted twice, misread or on the overdraft's      *)
(* balance at the start, and that one row is the first.                    *)
StatementIsTheBanks ==
    Sound => \A order \in Orders(Account), from, to \in Days :
        LET day == transactions[Anchor].day
            shown == \E n \in DOMAIN order : transactions[order[n]].day \in from..to
            s == Statement(order, from, to)
        IN  (shown /\ day <= to) =>
                /\ s.closing = Worth(to)
                /\ from > day => s.opening = Worth(from - 1)
=============================================================================
