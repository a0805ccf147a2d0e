------------------------------ MODULE MCFigures ------------------------------
(* Two accounts and two currencies, four moments on two days.  Each setup  *)
(* bounds what it does not look at.                                        *)
EXTENDS Figures

CONSTANTS bankAccount, cash, food, pay

TheCategoryTypes == [c \in {food, pay} |-> IF c = food THEN "expense" ELSE "income"]

(* Three movements: two or three at once, two on a day, one on each day... *)
Times == {<<1, 1, 1>>, <<1, 1, 2>>, <<1, 2, 3>>, <<1, 3, 3>>}

Movements(times, texts, deltas, debts) ==
    {book \in {[i \in DOMAIN times |-> [time |-> times[i], text |-> text[i], below |-> <<>>, delta |-> delta[i], debt |-> debt[i]]] :
                   text \in texts, delta \in [DOMAIN times -> deltas], debt \in debts} :
        \A i \in DOMAIN book : book[i].debt => book[i].delta > 0}

Books(texts, deltas, debts) == UNION {Movements(times, texts, deltas, debts) : times \in Times}

Cash     == {<<FALSE, FALSE, FALSE>>}
Overdrawn == Cash \cup {<<TRUE, FALSE, FALSE>>, <<FALSE, TRUE, FALSE>>}
Repeated == {<<"x", "x", "x">>, <<"x", "y", "x">>, <<"x", "y", "y">>}
Distinct == {<<"x", "y", "z">>}
Paired   == {<<"x", "x", "y">>}

(* Two days, of which statements may overlap, nest or leave a gap. *)
Spread(deltas) == UNION {Movements(times, Distinct, deltas, Cash) : times \in {<<1, 2, 3>>, <<1, 3, 3>>}}

(* Of a movement's text the last word stands below its line. *)
Wrapped(books) == books \cup {[b EXCEPT ![1].below = <<"w">>] : b \in books}

Pages(headings, breaks) == [heading : headings, pages : breaks]
OnePage == Pages({"april"}, {{}})

Parsing(provider, anchored, books, statements, faults) ==
    [provider |-> provider, anchored |-> anchored, named |-> None, currencies |-> [a \in Accounts |-> "KES"],
     furniture |-> OnePage, books |-> books, imports |-> statements, manual |-> 0, allocations |-> 0, faults |-> faults]

Reporting(provider, named, cashCurrency, times, splits) ==
    [Parsing(provider, TRUE, Movements(times, Distinct, {2}, Cash), 1, FALSE)
        EXCEPT !.named = named, !.currencies[cash] = cashCurrency, !.manual = 1, !.allocations = splits]

(* Equity Bank's statements of two periods, or of one, of one or two pages. *)
Overlapping ==
    [Parsing("Equity Bank", TRUE, Wrapped(Spread({2, -1})), 2, FALSE)
        EXCEPT !.furniture = Pages({"april"}, {{}, {2}}) \cup Pages({"may"}, {{}})]

(* Of one heading, even. *)
OverlapSetups == {[Overlapping EXCEPT !.furniture = OnePage]}

TheSetups ==
    {Parsing("NCBA Bank", TRUE, Books(Repeated, {2, -2, -1}, Cash), 2, FALSE),
     [Parsing("Equity Bank", TRUE, Wrapped(Books(Paired, {2, -1}, Cash)), 1, TRUE)
         EXCEPT !.furniture = Pages({"april"}, {{}, {2}})],
     Overlapping,
     Parsing("Mentor Sacco", FALSE, Books(Distinct, {2, -2, -1}, Cash), 2, FALSE),
     Parsing("M-Pesa", FALSE, Books(Paired, {2, -2, -1}, Overdrawn), 2, FALSE),
     [Parsing("NCBA Bank", TRUE, Spread({2, -1}), 2, FALSE) EXCEPT !.manual = 1],
     Reporting("Equity Bank", "USD", "KES", <<1, 3>>, 1),
     Reporting("NCBA Bank", None, "USD", <<1>>, 2)}
=============================================================================
