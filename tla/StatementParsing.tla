--------------------------- MODULE StatementParsing ---------------------------
(***************************************************************************)
(* What the parsers make of a statement (app/parsers).  A statement is its *)
(* lines, oldest first whatever the layout, with the text that goes into a *)
(* row's fingerprint; what is printed above each line and is no line of    *)
(* its own; and what else a layout states: an opening balance (NCBA Bank   *)
(* in its header, Mentor Sacco per section, when it does), or the totals   *)
(* it follows from (Equity Bank).  Amounts are whole cents.                *)
(* One line may be lost in the extraction: its balance was not found or    *)
(* its text not recognised.  Rows of a status other than Completed, and    *)
(* rows without a balance, are left out.                                   *)
(***************************************************************************)
EXTENDS Integers, Sequences, FiniteSets, FiniteSetsExt, SequencesExt

CONSTANT None

Delta(row) == IF row.direction = "in" THEN row.amount ELSE -row.amount

Abs(x) == IF x < 0 THEN -x ELSE x

(* Amount and direction from the balances, whatever the line itself says.  *)
Chained(lines, opening) ==
    [i \in DOMAIN lines |->
        LET change == lines[i].balance - IF i = 1 THEN opening ELSE lines[i - 1].balance
        IN  [lines[i] EXCEPT !.amount = Abs(change),
                             !.direction = IF change >= 0 THEN "in" ELSE "out"]]

(* validate_running_balance *)
Reconciles(rows, opening) ==
    \A i \in DOMAIN rows :
        (IF i = 1 THEN opening ELSE rows[i - 1].balance) + Delta(rows[i]) = rows[i].balance

Validated(rows, opening) == IF Reconciles(rows, opening) THEN rows ELSE None

Found(statement) ==
    IF statement.lost = 0 THEN statement.lines ELSE RemoveAt(statement.lines, statement.lost)

(* _find_opening_balance and _parse_page: a row without its balance is skipped. *)
ParseNcba(statement) ==
    IF statement.opening = None THEN None
    ELSE Validated(Chained(Found(statement), statement.opening), statement.opening)

(* Whatever stands above a line, from the top of the file on, is taken for *)
(* the beginning of its text: the statement's heading, what a page begins  *)
(* and ends with, the rest of a text that was wrapped, and a line that is  *)
(* not recognised.                                                         *)
WithAbove(statement) ==
    [i \in DOMAIN statement.lines |->
        [statement.lines[i] EXCEPT !.text = statement.above[i] \o @]]

EquityLines(statement) ==
    LET k == statement.lost
        lines == WithAbove(statement)
        joined == IF k \in 1..Len(lines) - 1 THEN [lines EXCEPT ![k + 1].text = lines[k].text \o @]
                  ELSE lines
    IN  IF k = 0 THEN joined ELSE RemoveAt(joined, k)

ParseEquity(statement) ==
    IF statement.total = None THEN None
    ELSE LET opening == statement.total.closing - statement.total.credit + statement.total.debit
         IN  Validated(Chained(EquityLines(statement), opening), opening)

(* A section of a Mentor Sacco statement; without a stated opening balance *)
(* its first row is taken for an increase.                                 *)
SectionOpening(section) ==
    LET rows == Found(section)
    IN  IF section.opening # None THEN section.opening
        ELSE IF rows = <<>> THEN 0 ELSE rows[1].balance - rows[1].amount

ParseSection(section) ==
    LET opening == SectionOpening(section)
    IN  Validated(Chained(Found(section), opening), opening)

-----------------------------------------------------------------------------
(* M-Pesa lists the newest first and states amount and direction.          *)

(* A set in order: as the k-th its member that k - 1 others come before. *)
Sorted(S, before) ==
    [k \in 1..Cardinality(S) |-> CHOOSE x \in S : Cardinality({y \in S : <<y, x>> \in before}) = k - 1]

(* parsed.sort, a stable sort: rows of one time stay newest first. *)
Earlier(rows) ==
    {p \in (DOMAIN rows) \X (DOMAIN rows) :
        \/ rows[p[1]].time < rows[p[2]].time
        \/ rows[p[1]].time = rows[p[2]].time /\ p[1] < p[2]}

Ascending(rows) == [k \in DOMAIN rows |-> rows[Sorted(DOMAIN rows, Earlier(rows))[k]]]

(* The chain from the balance that a candidate's own first row implies. *)
SelfConsistent(rows) == Reconciles(rows, rows[1].balance - Delta(rows[1]))

(* The permutations of a cluster under which it fits. *)
Fitting(cluster) ==
    {p \in SetToSeqs(DOMAIN cluster) : SelfConsistent([i \in DOMAIN cluster |-> cluster[p[i]]])}

(* _self_consistent_order: the one order that fits, or none. *)
SelfConsistentOrder(cluster) ==
    IF Cardinality(Fitting(cluster)) # 1 THEN cluster
    ELSE LET p == CHOOSE q \in Fitting(cluster) : TRUE
         IN  [i \in DOMAIN cluster |-> cluster[p[i]]]

(* The rows of the statement's first moment. *)
LeadingTie(rows) == {i \in DOMAIN rows : rows[i].time = rows[1].time}

(* A bug: rows of one moment are taken as they are listed. *)
Wrong_AsListed(rows) == rows

(* _resolve_leading_tie *)
ResolveLeadingTie(rows) ==
    LET size == Cardinality(LeadingTie(rows))
    IN  IF size < 2 THEN rows
        ELSE SelfConsistentOrder(SubSeq(rows, 1, size)) \o SubSeq(rows, size + 1, Len(rows))

ParseMpesa(statement) == ResolveLeadingTie(Ascending(Reverse(Found(statement))))

-----------------------------------------------------------------------------
(* PARSERS, by the account's provider: the rows, or None when the parser   *)
(* raises a StatementParseError.                                           *)
Parse(provider, statement) ==
    CASE provider = "NCBA Bank" -> ParseNcba(statement)
      [] provider = "Equity Bank" -> ParseEquity(statement)
      [] provider = "Mentor Sacco" -> ParseSection(statement)
      [] provider = "M-Pesa" -> ParseMpesa(statement)

(* A bug: the text alone, which the bank repeats. *)
Wrong_TextAlone(row) == row.text

(* dedupe_hash: none of them has the date in it. *)
Fingerprint(row) == <<row.text, row.amount>>

(* derive_opening_balance *)
DerivedOpening(rows) == IF rows = <<>> THEN None ELSE rows[1].balance - Delta(rows[1])

(* The currency of the rows: of these statements Equity Bank's may name it. *)
StatementCurrency(provider, named) ==
    IF provider = "Equity Bank" /\ named # None THEN named ELSE "KES"
=============================================================================
