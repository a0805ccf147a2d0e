---------------------------- MODULE FiguresProofs ----------------------------
(***************************************************************************)
(* Theorems about Figures: what the parsers make of any statement that a   *)
(* bank prints of its book, and what the reports say of whatever has been  *)
(* imported, entered and allocated, for every book, every set of accounts, *)
(* currencies and categories and every number of steps.                    *)
(***************************************************************************)
EXTENDS Figures, SetSums, SequenceTheorems, TLAPS

-----------------------------------------------------------------------------
(* A set in order. *)
IsOrder(S, before) ==
    /\ \A x \in S : <<x, x>> \notin before
    /\ \A x, y \in S : x # y => <<x, y>> \in before \/ <<y, x>> \in before
    /\ \A x, y, z \in S : <<x, y>> \in before /\ <<y, z>> \in before => <<x, z>> \in before

Below(S, before, x) == {y \in S : <<y, x>> \in before}

LEMMA RankMonotonic ==
    ASSUME NEW S, IsFiniteSet(S), NEW before, IsOrder(S, before), NEW x \in S, NEW y \in S, <<x, y>> \in before
    PROVE  Cardinality(Below(S, before, x)) < Cardinality(Below(S, before, y))
<1>1. IsFiniteSet(Below(S, before, x)) /\ IsFiniteSet(Below(S, before, y))
    BY FS_Subset DEF Below
<1>2. x \notin Below(S, before, x)
    BY DEF Below, IsOrder
<1>3. Below(S, before, x) \cup {x} \subseteq Below(S, before, y)
    BY DEF Below, IsOrder
<1>4. Cardinality(Below(S, before, x) \cup {x}) = Cardinality(Below(S, before, x)) + 1
    BY <1>1, <1>2, FS_AddElement
<1>5. Cardinality(Below(S, before, x) \cup {x}) <= Cardinality(Below(S, before, y))
    BY <1>1, <1>3, FS_Subset
<1>6. Cardinality(Below(S, before, x)) \in Nat /\ Cardinality(Below(S, before, y)) \in Nat
    BY <1>1, FS_CardinalityType
<1>7. QED BY <1>4, <1>5, <1>6

LEMMA SortedSet ==
    ASSUME NEW S, IsFiniteSet(S), NEW before, IsOrder(S, before)
    PROVE  /\ Cardinality(S) \in Nat
           /\ Sorted(S, before) \in Bijection(1..Cardinality(S), S)
           /\ \A k \in 1..Cardinality(S) : Cardinality(Below(S, before, Sorted(S, before)[k])) = k - 1
<1> DEFINE n == Cardinality(S)
           rank == [x \in S |-> Cardinality(Below(S, before, x))]
<1>1. n \in Nat
    BY FS_CardinalityType
<1>2. \A x \in S : rank[x] \in 0..n - 1
    <2> SUFFICES ASSUME NEW x \in S PROVE rank[x] \in 0..n - 1
        OBVIOUS
    <2>1. Below(S, before, x) \subseteq S \ {x}
        BY DEF Below, IsOrder
    <2>2. IsFiniteSet(S \ {x}) /\ Cardinality(S \ {x}) = n - 1
        BY FS_RemoveElement
    <2>3. IsFiniteSet(Below(S, before, x)) /\ Cardinality(Below(S, before, x)) <= n - 1
        BY <2>1, <2>2, FS_Subset
    <2>4. Cardinality(Below(S, before, x)) \in Nat
        BY <2>3, FS_CardinalityType
    <2>5. QED BY <1>1, <2>3, <2>4
<1>3. \A x, y \in S : rank[x] = rank[y] => x = y
    <2> SUFFICES ASSUME NEW x \in S, NEW y \in S, x # y PROVE rank[x] # rank[y]
        OBVIOUS
    <2>1. rank[x] \in Int /\ rank[y] \in Int
        BY <1>1, <1>2
    <2>2. CASE <<x, y>> \in before
        BY <2>1, <2>2, RankMonotonic
    <2>3. CASE <<y, x>> \in before
        BY <2>1, <2>3, RankMonotonic
    <2>4. QED BY <2>2, <2>3 DEF IsOrder
<1>4. rank \in Injection(S, 0..n - 1)
    BY <1>2, <1>3 DEF Injection, IsInjective
<1>5. IsFiniteSet(0..n - 1) /\ Cardinality(0..n - 1) = n
    BY <1>1, FS_Interval
<1>6. rank \in Surjection(S, 0..n - 1)
    <2> HIDE DEF rank
    <2> QED BY <1>4, <1>5, FS_Injection
<1>7. \A k \in 1..n : \E x \in S : rank[x] = k - 1
    <2> SUFFICES ASSUME NEW k \in 1..n PROVE \E x \in S : rank[x] = k - 1
        OBVIOUS
    <2>1. k - 1 \in 0..n - 1
        BY <1>1
    <2>2. QED BY <1>6, <2>1 DEF Surjection
<1>8. \A k \in 1..n : Sorted(S, before)[k] \in S /\ rank[Sorted(S, before)[k]] = k - 1
    <2> SUFFICES ASSUME NEW k \in 1..n
                 PROVE  Sorted(S, before)[k] \in S /\ rank[Sorted(S, before)[k]] = k - 1
        OBVIOUS
    <2> DEFINE Pick(j) == CHOOSE x \in S : Cardinality(Below(S, before, x)) = j - 1
    <2>0. Sorted(S, before) = [j \in 1..n |-> Pick(j)]
        BY DEF Sorted, Below
    <2>1. Sorted(S, before)[k] = Pick(k)
        <3> HIDE DEF Pick
        <3> QED BY <2>0
    <2>2. \E x \in S : Cardinality(Below(S, before, x)) = k - 1
        BY <1>7
    <2>3. QED BY <2>1, <2>2
<1>9. Sorted(S, before) \in [1..n -> S]
    <2> DEFINE Pick(j) == CHOOSE x \in S : Cardinality(Below(S, before, x)) = j - 1
    <2>1. Sorted(S, before) = [j \in 1..n |-> Pick(j)]
        BY DEF Sorted, Below
    <2> HIDE DEF Pick
    <2>2. QED BY <1>8, <2>1
<1>10. \A x \in S : \E k \in 1..n : Sorted(S, before)[k] = x
    <2> SUFFICES ASSUME NEW x \in S PROVE \E k \in 1..n : Sorted(S, before)[k] = x
        OBVIOUS
    <2>1. rank[x] + 1 \in 1..n /\ (rank[x] + 1) - 1 = rank[x]
        BY <1>1, <1>2
    <2>2. PICK k \in 1..n : k = rank[x] + 1
        BY <2>1
    <2>3. Sorted(S, before)[k] \in S /\ rank[Sorted(S, before)[k]] = rank[x]
        <3> HIDE DEF rank
        <3> QED BY <1>8, <2>1, <2>2
    <2>4. Sorted(S, before)[k] = x
        <3> HIDE DEF rank
        <3> QED BY <1>3, <2>3
    <2>5. QED BY <2>4
<1>11. \A j, k \in 1..n : Sorted(S, before)[j] = Sorted(S, before)[k] => j = k
    <2> SUFFICES ASSUME NEW j \in 1..n, NEW k \in 1..n, Sorted(S, before)[j] = Sorted(S, before)[k]
                 PROVE  j = k
        OBVIOUS
    <2>1. j - 1 = k - 1
        BY <1>8
    <2>2. QED BY <1>1, <2>1
<1>12. Sorted(S, before) \in Bijection(1..n, S)
    BY <1>9, <1>10, <1>11 DEF Bijection, Injection, Surjection, IsInjective
<1>13. QED BY <1>1, <1>8, <1>12

-----------------------------------------------------------------------------
Line(Time, Text) ==
    [time : Time, text : Text, amount : Nat, direction : Directions, balance : Int]

LEMMA AbsType == \A x \in Int : Abs(x) \in Nat
BY DEF Abs

LEMMA ChainedType ==
    ASSUME NEW Time, NEW Text, NEW lines \in Seq(Line(Time, Text)), NEW opening \in Int
    PROVE  /\ Chained(lines, opening) \in Seq(Line(Time, Text))
           /\ Len(Chained(lines, opening)) = Len(lines)
           /\ \A i \in 1..Len(lines) :
                 LET change == lines[i].balance - IF i = 1 THEN opening ELSE lines[i - 1].balance
                     row == Chained(lines, opening)[i]
                 IN  /\ change \in Int
                     /\ row.time = lines[i].time /\ row.text = lines[i].text /\ row.balance = lines[i].balance
                     /\ row.amount = Abs(change)
                     /\ row.direction = IF change >= 0 THEN "in" ELSE "out"
<1> DEFINE Change(i) == lines[i].balance - IF i = 1 THEN opening ELSE lines[i - 1].balance
           Row_(i) == [lines[i] EXCEPT !.amount = Abs(Change(i)),
                                       !.direction = IF Change(i) >= 0 THEN "in" ELSE "out"]
<1>1. Chained(lines, opening) = [i \in 1..Len(lines) |-> Row_(i)]
    BY DEF Chained
<1>2. \A i \in 1..Len(lines) : lines[i] \in Line(Time, Text) /\ (i # 1 => lines[i - 1] \in Line(Time, Text))
    OBVIOUS
<1>3. \A i \in 1..Len(lines) : Change(i) \in Int
    <2> SUFFICES ASSUME NEW i \in 1..Len(lines) PROVE Change(i) \in Int
        OBVIOUS
    <2>1. lines[i].balance \in Int /\ (i # 1 => lines[i - 1].balance \in Int)
        BY <1>2 DEF Line
    <2>2. QED BY <2>1
<1>4. \A i \in 1..Len(lines) :
         /\ Row_(i) \in Line(Time, Text)
         /\ Row_(i).time = lines[i].time /\ Row_(i).text = lines[i].text /\ Row_(i).balance = lines[i].balance
         /\ Row_(i).amount = Abs(Change(i))
         /\ Row_(i).direction = IF Change(i) >= 0 THEN "in" ELSE "out"
    <2> SUFFICES ASSUME NEW i \in 1..Len(lines)
                 PROVE  /\ Row_(i) \in Line(Time, Text)
                        /\ Row_(i).time = lines[i].time /\ Row_(i).text = lines[i].text
                        /\ Row_(i).balance = lines[i].balance
                        /\ Row_(i).amount = Abs(Change(i))
                        /\ Row_(i).direction = IF Change(i) >= 0 THEN "in" ELSE "out"
        OBVIOUS
    <2>1. Abs(Change(i)) \in Nat /\ lines[i] \in Line(Time, Text)
        BY <1>2, <1>3, AbsType
    <2> HIDE DEF Change
    <2>2. QED BY <2>1 DEF Line, Directions
<1> HIDE DEF Row_
<1>5. /\ Chained(lines, opening) \in Seq(Line(Time, Text))
      /\ Len(Chained(lines, opening)) = Len(lines)
      /\ \A i \in 1..Len(lines) : Chained(lines, opening)[i] = Row_(i)
    BY <1>1, <1>4
<1>6. QED BY <1>3, <1>4, <1>5

LEMMA ChainedReconciles ==
    ASSUME NEW Time, NEW Text, NEW lines \in Seq(Line(Time, Text)), NEW opening \in Int
    PROVE  Reconciles(Chained(lines, opening), opening)
<1> DEFINE rows == Chained(lines, opening)
           Before(s, i) == IF i = 1 THEN opening ELSE s[i - 1].balance
           Change(i) == lines[i].balance - Before(lines, i)
<1>1. /\ DOMAIN rows = 1..Len(lines)
      /\ \A i \in 1..Len(lines) :
            /\ Change(i) \in Int /\ rows[i].balance = lines[i].balance
            /\ rows[i].amount = Abs(Change(i))
            /\ rows[i].direction = IF Change(i) >= 0 THEN "in" ELSE "out"
    BY ChainedType
<1>2. ASSUME NEW i \in 1..Len(lines)
      PROVE  Before(rows, i) + Delta(rows[i]) = rows[i].balance
    <2>1. i # 1 => i - 1 \in 1..Len(lines)
        OBVIOUS
    <2>2. lines[i].balance \in Int /\ (i # 1 => lines[i - 1].balance \in Int)
        <3>1. lines[i] \in Line(Time, Text) /\ (i # 1 => lines[i - 1] \in Line(Time, Text))
            BY <2>1
        <3>2. QED BY <3>1 DEF Line
    <2>3. Before(rows, i) = Before(lines, i) /\ Before(lines, i) \in Int
        <3>1. \A j \in 1..Len(lines) : rows[j].balance = lines[j].balance
            BY <1>1
        <3> HIDE DEF rows
        <3>2. QED BY <2>1, <2>2, <3>1
    <2>4. Delta(rows[i]) = Change(i)
        <3>1. /\ Change(i) \in Int /\ rows[i].amount = Abs(Change(i))
              /\ rows[i].direction = IF Change(i) >= 0 THEN "in" ELSE "out"
            BY <1>1
        <3>2. \A y \in Int : -(-y) = y
            OBVIOUS
        <3> HIDE DEF rows, Change
        <3>3. QED BY <3>1, <3>2 DEF Delta, Abs
    <2>5. \A a, b \in Int : b + (a - b) = a
        OBVIOUS
    <2>6. rows[i].balance = lines[i].balance
        BY <1>1
    <2> HIDE DEF rows, Before
    <2>7. QED BY <2>2, <2>3, <2>4, <2>5, <2>6
<1>3. DOMAIN Chained(lines, opening) = 1..Len(lines)
    BY <1>1
<1>4. QED BY <1>2, <1>3 DEF Reconciles

(* What a line lost before the others leaves is still a list of lines. *)
LEMMA FoundLines ==
    ASSUME NEW Time, NEW Text, NEW statement, statement.lines \in Seq(Line(Time, Text)),
           statement.lost \in 0..Len(statement.lines)
    PROVE  Found(statement) \in Seq(Line(Time, Text))
BY DEF Found, RemoveAt

(* Nor do the lines that Equity Bank's layout takes for the text of the next row. *)
Titled(line, above) == [line EXCEPT !.text = above \o line.text]

AllTitled(lines, statement) ==
    \A i \in 1..Len(statement.lines) : lines[i] = Titled(statement.lines[i], statement.above[i])

LEMMA WithAboveType ==
    ASSUME NEW Time, NEW Word, NEW statement, statement.lines \in Seq(Line(Time, Seq(Word))),
           statement.above \in [1..Len(statement.lines) -> Seq(Word)]
    PROVE  /\ WithAbove(statement) \in Seq(Line(Time, Seq(Word)))
           /\ Len(WithAbove(statement)) = Len(statement.lines)
           /\ AllTitled(WithAbove(statement), statement)
<1> DEFINE n == Len(statement.lines)
           With(i) == [statement.lines[i] EXCEPT !.text = statement.above[i] \o @]
<1>1. n \in Nat /\ DOMAIN statement.lines = 1..n
    OBVIOUS
<1>2. ASSUME NEW i \in 1..n
      PROVE  /\ With(i) \in Line(Time, Seq(Word))
             /\ With(i) = Titled(statement.lines[i], statement.above[i])
    <2>1. statement.lines[i] \in Line(Time, Seq(Word)) /\ statement.above[i] \in Seq(Word)
        OBVIOUS
    <2>2. statement.lines[i].text \in Seq(Word)
        BY <2>1 DEF Line
    <2>3. statement.above[i] \o statement.lines[i].text \in Seq(Word)
        BY <2>1, <2>2, ConcatProperties
    <2>4. With(i) = [statement.lines[i] EXCEPT !.text = statement.above[i] \o statement.lines[i].text]
        BY <2>1 DEF Line
    <2>5. With(i) \in Line(Time, Seq(Word))
        BY <2>1, <2>3, <2>4 DEF Line
    <2>6. QED BY <2>4, <2>5 DEF Titled
<1>3. WithAbove(statement) = [i \in 1..n |-> With(i)]
    BY <1>1 DEF WithAbove
<1> HIDE DEF With
<1>4. /\ WithAbove(statement) \in Seq(Line(Time, Seq(Word))) /\ Len(WithAbove(statement)) = n
      /\ \A i \in 1..n : WithAbove(statement)[i] = With(i)
    <2>1. PICK w : w = WithAbove(statement)
        OBVIOUS
    <2>2. w = [i \in 1..n |-> With(i)] /\ \A i \in 1..n : With(i) \in Line(Time, Seq(Word))
        BY <1>2, <1>3, <2>1
    <2>3. w \in Seq(Line(Time, Seq(Word))) /\ Len(w) = n /\ \A i \in 1..n : w[i] = With(i)
        BY <1>1, <2>2
    <2>4. QED BY <2>1, <2>3
<1>5. AllTitled(WithAbove(statement), statement)
    BY <1>2, <1>4 DEF AllTitled
<1>6. QED BY <1>4, <1>5

LEMMA FoldedLines ==
    ASSUME NEW Time, NEW Word, NEW statement, statement.lines \in Seq(Line(Time, Seq(Word))),
           statement.above \in [1..Len(statement.lines) -> Seq(Word)],
           statement.lost \in 0..Len(statement.lines)
    PROVE  EquityLines(statement) \in Seq(Line(Time, Seq(Word)))
<1>0. PICK lines : lines = WithAbove(statement)
    OBVIOUS
<1>1. lines \in Seq(Line(Time, Seq(Word))) /\ Len(lines) = Len(statement.lines)
    BY <1>0, WithAboveType
<1> DEFINE k == statement.lost
           folded == [lines EXCEPT ![k + 1].text = lines[k].text \o @]
           row == [lines[k + 1] EXCEPT !.text = lines[k].text \o @]
<1>2. CASE k = 0
    <2>1. EquityLines(statement) = lines
        BY <1>0, <1>2 DEF EquityLines
    <2>2. QED BY <1>1, <2>1
<1>3. CASE k # 0 /\ k = Len(lines)
    <2>1. EquityLines(statement) = SubSeq(lines, 1, k - 1) \o SubSeq(lines, k + 1, Len(lines))
        <3>1. k # 0 /\ ~(k \in 1..Len(lines) - 1)
            BY <1>1, <1>3
        <3>2. EquityLines(statement) = RemoveAt(lines, k)
            BY <1>0, <3>1 DEF EquityLines
        <3>3. QED BY <3>2 DEF RemoveAt
    <2>2. QED BY <1>1, <1>3, <2>1
<1>4. CASE k \in 1..Len(lines) - 1
    <2>1. k \in 1..Len(lines) /\ k + 1 \in 1..Len(lines) /\ k # 0
        BY <1>1, <1>4
    <2>2. lines[k] \in Line(Time, Seq(Word)) /\ lines[k + 1] \in Line(Time, Seq(Word))
        BY <1>1, <2>1
    <2>3. lines[k].text \o lines[k + 1].text \in Seq(Word)
        <3>1. lines[k].text \in Seq(Word) /\ lines[k + 1].text \in Seq(Word)
            BY <2>2 DEF Line
        <3>2. QED BY <3>1, ConcatProperties
    <2>4. row \in Line(Time, Seq(Word))
        BY <2>2, <2>3 DEF Line
    <2>5. folded = [lines EXCEPT ![k + 1] = row]
        BY <1>1
    <2>6. folded \in Seq(Line(Time, Seq(Word))) /\ Len(folded) = Len(lines)
        <3> HIDE DEF row, folded
        <3> QED BY <1>1, <2>1, <2>4, <2>5
    <2>7. EquityLines(statement) = SubSeq(folded, 1, k - 1) \o SubSeq(folded, k + 1, Len(folded))
        BY <1>0, <1>4, <2>1 DEF EquityLines, RemoveAt
    <2> HIDE DEF folded
    <2>8. QED BY <2>1, <2>6, <2>7
<1>5. QED BY <1>1, <1>2, <1>3, <1>4

FromTotals(statement) ==
    statement.total.closing - statement.total.credit + statement.total.debit

(* Whatever line of it is missed, a statement is accepted as soon as its   *)
(* anchor is found, and a section of a Mentor Sacco statement without one: *)
(* the replay of validate_running_balance refuses none.                    *)
THEOREM ReplayRefusesNone ==
    ASSUME NEW Time, NEW Word, NEW statement, statement.lines \in Seq(Line(Time, Seq(Word))),
           statement.above \in [1..Len(statement.lines) -> Seq(Word)],
           statement.lost \in 0..Len(statement.lines), None \notin Int
    PROVE  /\ statement.opening \in Int =>
                  ParseNcba(statement) = Chained(Found(statement), statement.opening)
           /\ statement.total # None /\ FromTotals(statement) \in Int =>
                  ParseEquity(statement) = Chained(EquityLines(statement), FromTotals(statement))
           /\ statement.opening \in Int \cup {None} =>
                  ParseSection(statement) = Chained(Found(statement), SectionOpening(statement))
<1>1. Found(statement) \in Seq(Line(Time, Seq(Word)))
  BY FoundLines
<1>2. ASSUME statement.opening \in Int
      PROVE  ParseNcba(statement) = Chained(Found(statement), statement.opening)
  BY <1>1, <1>2, ChainedReconciles DEF ParseNcba, Validated
<1>3. ASSUME statement.total # None, FromTotals(statement) \in Int
      PROVE  ParseEquity(statement) = Chained(EquityLines(statement), FromTotals(statement))
  <2>1. Reconciles(Chained(EquityLines(statement), FromTotals(statement)), FromTotals(statement))
    BY <1>3, FoldedLines, ChainedReconciles
  <2> QED
    BY <1>3, <2>1 DEF ParseEquity, Validated, FromTotals
<1>4. ASSUME statement.opening \in Int \cup {None}
      PROVE  ParseSection(statement) = Chained(Found(statement), SectionOpening(statement))
  <2>1. Found(statement) # <<>> => Found(statement)[1] \in Line(Time, Seq(Word))
    BY <1>1
  <2>2. SectionOpening(statement) \in Int
    BY <1>4, <2>1 DEF SectionOpening, Line
  <2> QED
    BY <1>1, <2>2, ChainedReconciles DEF ParseSection, Validated
<1> QED
  BY <1>2, <1>3, <1>4

-----------------------------------------------------------------------------
LEMMA Positions ==
    ASSUME NEW X, NEW s \in Seq(X)
    PROVE  Len(s) \in Nat /\ IsFiniteSet(1..Len(s)) /\ Cardinality(1..Len(s)) = Len(s)
<1>1. \A n \in Nat : IsFiniteSet(1..n) /\ Cardinality(1..n) = n
    <2> SUFFICES ASSUME NEW n \in Nat PROVE IsFiniteSet(1..n) /\ Cardinality(1..n) = n
        OBVIOUS
    <2>1. IsFiniteSet(1..n) /\ Cardinality(1..n) = IF 1 > n THEN 0 ELSE n - 1 + 1
        BY FS_Interval
    <2>2. QED BY <2>1
<1>2. QED BY <1>1

(* The same rows in another order. *)
LEMMA Reordered ==
    ASSUME NEW X, NEW s \in Seq(X), NEW p \in Bijection(1..Len(s), 1..Len(s)),
           NEW t, t = [k \in 1..Len(s) |-> s[p[k]]]
    PROVE  t \in Seq(X) /\ Len(t) = Len(s) /\ Range(t) = Range(s)
<1>1. \A k \in 1..Len(s) : p[k] \in 1..Len(s) /\ s[p[k]] \in X
    BY DEF Bijection, Injection
<1>2. t \in Seq(X) /\ Len(t) = Len(s) /\ DOMAIN t = 1..Len(s)
    BY <1>1
<1>3. \A j \in 1..Len(s) : \E k \in 1..Len(s) : p[k] = j
    BY DEF Bijection, Surjection
<1>4. DOMAIN s = 1..Len(s)
    OBVIOUS
<1>5. ASSUME NEW x \in Range(s) PROVE x \in Range(t)
    <2>1. PICK j \in 1..Len(s) : x = s[j]
        BY <1>4 DEF Range
    <2>2. PICK k \in 1..Len(s) : p[k] = j
        BY <1>3
    <2>3. t[k] = x
        BY <2>1, <2>2
    <2>4. QED BY <1>2, <2>3 DEF Range
<1>6. ASSUME NEW x \in Range(t) PROVE x \in Range(s)
    <2>1. PICK k \in 1..Len(s) : x = t[k]
        BY <1>2 DEF Range
    <2>2. x = s[p[k]] /\ p[k] \in DOMAIN s
        BY <1>1, <1>4, <2>1
    <2>3. QED BY <2>2 DEF Range
<1>7. QED BY <1>2, <1>5, <1>6

LEMMA EarlierIsOrder ==
    ASSUME NEW Text, NEW Time \in SUBSET Int, NEW rows \in Seq(Line(Time, Text))
    PROVE  IsOrder(1..Len(rows), Earlier(rows))
<1> DEFINE n == Len(rows)
           when == [i \in 1..n |-> rows[i].time]
<1>1. DOMAIN rows = 1..n /\ n \in Nat /\ \A i \in 1..n : rows[i] \in Line(Time, Text)
    OBVIOUS
<1>2. \A i \in 1..n : when[i] \in Int
    <2> SUFFICES ASSUME NEW i \in 1..n PROVE when[i] \in Int
        OBVIOUS
    <2>1. rows[i].time \in Time
        BY <1>1 DEF Line
    <2>2. QED BY <2>1
<1>3. \A i, j \in 1..n : <<i, j>> \in Earlier(rows) <=>
         \/ when[i] < when[j]
         \/ when[i] = when[j] /\ i < j
    BY <1>1 DEF Earlier
<1> HIDE DEF n, when
<1>4. \A i \in 1..n : <<i, i>> \notin Earlier(rows)
    BY <1>1, <1>2, <1>3
<1>5. \A i, j \in 1..n : i # j => <<i, j>> \in Earlier(rows) \/ <<j, i>> \in Earlier(rows)
    BY <1>1, <1>2, <1>3
<1>6. \A i, j, k \in 1..n :
         <<i, j>> \in Earlier(rows) /\ <<j, k>> \in Earlier(rows) => <<i, k>> \in Earlier(rows)
    BY <1>1, <1>2, <1>3
<1>7. QED BY <1>4, <1>5, <1>6 DEF IsOrder, n

LEMMA AscendingRows ==
    ASSUME NEW Text, NEW Time \in SUBSET Int, NEW rows \in Seq(Line(Time, Text))
    PROVE  /\ Ascending(rows) \in Seq(Line(Time, Text)) /\ Len(Ascending(rows)) = Len(rows)
           /\ Range(Ascending(rows)) = Range(rows)
<1> DEFINE order == Sorted(1..Len(rows), Earlier(rows))
<1>1. IsFiniteSet(1..Len(rows)) /\ Cardinality(1..Len(rows)) = Len(rows)
    BY Positions
<1>2. order \in Bijection(1..Len(rows), 1..Len(rows))
    BY <1>1, EarlierIsOrder, SortedSet
<1>3. Ascending(rows) = [k \in 1..Len(rows) |-> rows[order[k]]]
    BY DEF Ascending
<1> HIDE DEF order
<1>4. QED BY <1>2, <1>3, Reordered

LEMMA ReverseRows ==
    ASSUME NEW X, NEW s \in Seq(X)
    PROVE  /\ Reverse(s) \in Seq(X) /\ Len(Reverse(s)) = Len(s) /\ Range(Reverse(s)) = Range(s)
           /\ \A k \in 1..Len(s) : Reverse(s)[k] = s[(Len(s) - k) + 1]
<1> DEFINE p == [k \in 1..Len(s) |-> (Len(s) - k) + 1]
<1>1. p \in Bijection(1..Len(s), 1..Len(s))
    <2>1. \A k \in 1..Len(s) : p[k] \in 1..Len(s) /\ p[(Len(s) - k) + 1] = k
        OBVIOUS
    <2>2. \A j, k \in 1..Len(s) : p[j] = p[k] => j = k
        OBVIOUS
    <2>3. p \in Surjection(1..Len(s), 1..Len(s))
        <3>1. \A k \in 1..Len(s) : \E j \in 1..Len(s) : p[j] = k
            BY <2>1
        <3>2. QED BY <2>1, <3>1 DEF Surjection
    <2>4. p \in Injection(1..Len(s), 1..Len(s))
        BY <2>1, <2>2 DEF Injection, IsInjective
    <2>5. QED BY <2>3, <2>4 DEF Bijection
<1>2. Reverse(s) = [k \in 1..Len(s) |-> s[p[k]]]
    BY DEF Reverse
<1>3. \A k \in 1..Len(s) : Reverse(s)[k] = s[(Len(s) - k) + 1]
    BY DEF Reverse
<1> HIDE DEF p
<1>4. QED BY <1>1, <1>2, <1>3, Reordered

(* The orders among which _self_consistent_order chooses. *)
LEMMA FittingOrders ==
    ASSUME NEW X, NEW cluster \in Seq(X), NEW p \in Fitting(cluster)
    PROVE  p \in Bijection(1..Len(cluster), 1..Len(cluster))
<1> DEFINE n == Len(cluster)
<1>1. IsFiniteSet(1..n) /\ Cardinality(1..n) = n
    BY Positions
<1>2. p \in [1..n -> 1..n] /\ \A i, j \in 1..n : i # j => p[i] # p[j]
    BY <1>1 DEF Fitting, SetToSeqs
<1>3. p \in Injection(1..n, 1..n)
    BY <1>2 DEF Injection, IsInjective
<1>4. p \in Surjection(1..n, 1..n)
    BY <1>1, <1>3, FS_Injection
<1>5. QED BY <1>3, <1>4 DEF Bijection

LEMMA SelfConsistentRows ==
    ASSUME NEW X, NEW cluster \in Seq(X)
    PROVE  /\ SelfConsistentOrder(cluster) \in Seq(X) /\ Len(SelfConsistentOrder(cluster)) = Len(cluster)
           /\ Range(SelfConsistentOrder(cluster)) = Range(cluster)
<1>1. CASE Cardinality(Fitting(cluster)) # 1
    BY <1>1 DEF SelfConsistentOrder
<1>2. CASE Cardinality(Fitting(cluster)) = 1
    <2> DEFINE p == CHOOSE q \in Fitting(cluster) : TRUE
    <2>1. Fitting(cluster) # {}
        BY <1>2, FS_EmptySet
    <2>2. p \in Fitting(cluster)
        BY <2>1
    <2>3. SelfConsistentOrder(cluster) = [i \in 1..Len(cluster) |-> cluster[p[i]]]
        BY <1>2 DEF SelfConsistentOrder
    <2> HIDE DEF p
    <2>4. QED BY <2>2, <2>3, FittingOrders, Reordered
<1>3. QED BY <1>1, <1>2

LEMMA ConcatRows ==
    ASSUME NEW X, NEW s \in Seq(X), NEW t \in Seq(X)
    PROVE  s \o t \in Seq(X) /\ Len(s \o t) = Len(s) + Len(t) /\ Range(s \o t) = Range(s) \cup Range(t)
<1> DEFINE u == s \o t
<1>1. u \in Seq(X) /\ Len(u) = Len(s) + Len(t)
    OBVIOUS
<1>2. \A i \in 1..Len(s) : u[i] = s[i] /\ i \in 1..Len(u)
    OBVIOUS
<1>3. \A i \in 1..Len(t) : u[Len(s) + i] = t[i] /\ Len(s) + i \in 1..Len(u)
    OBVIOUS
<1>4. \A i \in 1..Len(u) : IF i <= Len(s) THEN i \in 1..Len(s) /\ u[i] = s[i]
                           ELSE i - Len(s) \in 1..Len(t) /\ u[i] = t[i - Len(s)]
    OBVIOUS
<1>5. DOMAIN u = 1..Len(u) /\ DOMAIN s = 1..Len(s) /\ DOMAIN t = 1..Len(t)
    OBVIOUS
<1> HIDE DEF u
<1>6. Range(u) \subseteq Range(s) \cup Range(t)
    BY <1>4, <1>5 DEF Range
<1>7. Range(s) \subseteq Range(u)
    BY <1>2, <1>5 DEF Range
<1>8. Range(t) \subseteq Range(u)
    BY <1>3, <1>5 DEF Range
<1>9. QED BY <1>1, <1>6, <1>7, <1>8 DEF u

LEMMA SplitRows ==
    ASSUME NEW X, NEW s \in Seq(X), NEW n \in 0..Len(s)
    PROVE  LET l == SubSeq(s, 1, n)
               r == SubSeq(s, n + 1, Len(s))
           IN  /\ l \in Seq(X) /\ Len(l) = n /\ \A i \in 1..n : l[i] = s[i]
               /\ r \in Seq(X) /\ Len(r) = Len(s) - n
               /\ l \o r = s
<1> DEFINE l == SubSeq(s, 1, n)
           r == SubSeq(s, n + 1, Len(s))
<1>1. Len(s) \in Nat /\ n \in Nat /\ n <= Len(s)
    OBVIOUS
<1>2. l \in Seq(X) /\ Len(l) = n /\ \A i \in 1..n : l[i] = s[i]
    <2>1. \A i \in 1..n : s[i] \in X
        OBVIOUS
    <2>2. /\ l \in Seq(X) /\ Len(l) = IF 1 <= n THEN n - 1 + 1 ELSE 0
          /\ \A i \in 1..n - 1 + 1 : l[i] = s[1 + i - 1]
        BY <1>1, <2>1, SubSeqProperties
    <2> HIDE DEF l
    <2>3. QED BY <1>1, <2>2
<1>3. r \in Seq(X) /\ Len(r) = Len(s) - n /\ \A i \in 1..Len(s) - n : r[i] = s[n + i]
    <2>1. \A i \in n + 1..Len(s) : s[i] \in X
        BY <1>1
    <2>2. /\ r \in Seq(X) /\ Len(r) = IF n + 1 <= Len(s) THEN Len(s) - (n + 1) + 1 ELSE 0
          /\ \A i \in 1..Len(s) - (n + 1) + 1 : r[i] = s[n + 1 + i - 1]
        BY <1>1, <2>1, SubSeqProperties
    <2>3. Len(s) - (n + 1) + 1 = Len(s) - n /\ \A i \in Int : n + 1 + i - 1 = n + i
        BY <1>1
    <2> HIDE DEF r
    <2>4. Len(r) = Len(s) - n
        BY <1>1, <2>2
    <2>5. ASSUME NEW i \in 1..Len(s) - n PROVE r[i] = s[n + i]
        <3>1. i \in 1..Len(s) - (n + 1) + 1 /\ n + 1 + i - 1 = n + i
            BY <1>1
        <3>2. QED BY <2>2, <3>1
    <2>6. QED BY <2>2, <2>4, <2>5
<1> HIDE DEF l, r
<1>4. l \o r \in Seq(X) /\ Len(l \o r) = Len(s)
    BY <1>1, <1>2, <1>3
<1>5. \A i \in 1..Len(l \o r) : (l \o r)[i] = s[i]
    <2> SUFFICES ASSUME NEW i \in 1..Len(s) PROVE (l \o r)[i] = s[i]
        BY <1>4
    <2>1. (l \o r)[i] = IF i <= n THEN l[i] ELSE r[i - n]
        BY <1>1, <1>2, <1>3, ConcatProperties
    <2>2. CASE i <= n
        BY <1>1, <1>2, <2>1, <2>2
    <2>3. CASE n < i
        <3>1. i - n \in 1..Len(s) - n /\ n + (i - n) = i
            BY <1>1, <2>3
        <3>2. (l \o r)[i] = r[i - n]
            BY <1>1, <2>1, <2>3
        <3>3. r[i - n] = s[n + (i - n)]
            BY <1>3, <3>1
        <3>4. QED BY <3>1, <3>2, <3>3
    <2>4. i <= n \/ n < i
        BY <1>1
    <2>5. QED BY <2>2, <2>3, <2>4
<1>6. l \o r = s
    BY <1>4, <1>5, SeqEqual
<1>7. QED BY <1>2, <1>3, <1>6 DEF l, r

LEMMA ResolvedRows ==
    ASSUME NEW X, NEW rows \in Seq(X)
    PROVE  /\ ResolveLeadingTie(rows) \in Seq(X) /\ Len(ResolveLeadingTie(rows)) = Len(rows)
           /\ Range(ResolveLeadingTie(rows)) = Range(rows)
<1> DEFINE size == Cardinality(LeadingTie(rows))
           lead == SubSeq(rows, 1, size)
           rest == SubSeq(rows, size + 1, Len(rows))
<1>1. size \in 0..Len(rows)
    <2>1. LeadingTie(rows) \subseteq 1..Len(rows)
        BY DEF LeadingTie
    <2>2. IsFiniteSet(1..Len(rows)) /\ Cardinality(1..Len(rows)) = Len(rows)
        BY Positions
    <2>3. IsFiniteSet(LeadingTie(rows)) /\ Cardinality(LeadingTie(rows)) <= Len(rows)
        BY <2>1, <2>2, FS_Subset
    <2>4. QED BY <2>3, FS_CardinalityType
<1>2. CASE size < 2
    BY <1>2 DEF ResolveLeadingTie
<1>3. CASE ~(size < 2)
    <2> HIDE DEF size
    <2>1. /\ lead \in Seq(X) /\ Len(lead) = size
          /\ rest \in Seq(X) /\ Len(rest) = Len(rows) - size
          /\ lead \o rest = rows
        BY <1>1, SplitRows
    <2>2. ResolveLeadingTie(rows) = SelfConsistentOrder(lead) \o rest
        BY <1>3 DEF ResolveLeadingTie, size
    <2>3. /\ SelfConsistentOrder(lead) \in Seq(X) /\ Len(SelfConsistentOrder(lead)) = size
          /\ Range(SelfConsistentOrder(lead)) = Range(lead)
        BY <2>1, SelfConsistentRows
    <2> HIDE DEF lead, rest
    <2>4. Range(rows) = Range(lead) \cup Range(rest)
        BY <2>1, ConcatRows
    <2>5. /\ ResolveLeadingTie(rows) \in Seq(X)
          /\ Len(ResolveLeadingTie(rows)) = size + (Len(rows) - size)
          /\ Range(ResolveLeadingTie(rows)) = Range(lead) \cup Range(rest)
        <3> DEFINE found == SelfConsistentOrder(lead)
        <3>1. found \in Seq(X) /\ Len(found) = size /\ Range(found) = Range(lead)
            BY <2>3
        <3> HIDE DEF found
        <3>2. /\ found \o rest \in Seq(X) /\ Len(found \o rest) = size + (Len(rows) - size)
              /\ Range(found \o rest) = Range(lead) \cup Range(rest)
            BY <2>1, <3>1, ConcatRows
        <3>3. ResolveLeadingTie(rows) = found \o rest
            BY <2>2 DEF found
        <3>4. QED BY <3>2, <3>3
    <2>6. QED BY <1>1, <2>4, <2>5
<1>4. QED BY <1>2, <1>3

-----------------------------------------------------------------------------
(* The bank's book, one of the setup's. *)
BookOpen == setup \in Setups /\ bank \in setup.books

Deltas == [i \in DOMAIN bank |-> bank[i].delta]

LEMMA BookType ==
    ASSUME BookOpen
    PROVE  /\ DOMAIN bank = 1..Len(bank) /\ Len(bank) \in Nat
           /\ \A i \in 1..Len(bank) :
                 /\ bank[i].time \in 1..MaxTime /\ bank[i].text \in STRING
                 /\ bank[i].below \in Seq(STRING)
                 /\ bank[i].delta \in Int /\ bank[i].delta # 0 /\ bank[i].debt \in BOOLEAN
                 /\ bank[i].debt => setup.provider = "M-Pesa"
                 /\ Deltas[i] = bank[i].delta
           /\ \A i, j \in 1..Len(bank) : i < j => bank[i].time <= bank[j].time
<1>1. bank \in Seq(Movement)
    BY FiguresAssumption DEF BookOpen
<1>2. DOMAIN bank = 1..Len(bank) /\ Len(bank) \in Nat /\ \A i \in 1..Len(bank) : bank[i] \in Movement
    BY <1>1
<1>3. \A i \in DOMAIN bank : bank[i].debt => setup.provider = "M-Pesa"
    BY FiguresAssumption DEF BookOpen
<1>4. \A i, j \in DOMAIN bank : i < j => bank[i].time <= bank[j].time
    BY FiguresAssumption DEF BookOpen
<1>5. ASSUME NEW i \in 1..Len(bank)
      PROVE  /\ bank[i].time \in 1..MaxTime /\ bank[i].text \in STRING
             /\ bank[i].below \in Seq(STRING)
             /\ bank[i].delta \in Int /\ bank[i].delta # 0 /\ bank[i].debt \in BOOLEAN
             /\ Deltas[i] = bank[i].delta
    BY <1>2 DEF Movement, Deltas
<1>6. QED BY <1>2, <1>3, <1>4, <1>5

LEMMA SpanSums ==
    ASSUME BookOpen, NEW S \in SUBSET (1..Len(bank))
    PROVE  /\ IsFiniteSet(S) /\ SumFunctionOnSet(Deltas, S) \in Int
           /\ SumOf(S, LAMBDA i : bank[i].delta) = SumFunctionOnSet(Deltas, S)
<1>1. IsFiniteSet(S)
    <2>1. IsFiniteSet(1..Len(bank))
        BY BookType, FS_Interval
    <2>2. QED BY <2>1, FS_Subset
<1>2. \A i \in S : Deltas[i] \in Int
    BY BookType
<1>3. SumFunctionOnSet(Deltas, S) \in Int
    BY <1>1, <1>2, SumType
<1> DEFINE f == [i \in S |-> bank[i].delta]
<1>4. \A i \in S : f[i] \in Int /\ f[i] = Deltas[i]
    BY BookType
<1>5. SumFunctionOnSet(f, S) = SumFunctionOnSet(Deltas, S)
    <2> HIDE DEF f
    <2> QED BY <1>1, <1>4, SumEqual
<1>6. QED BY <1>1, <1>3, <1>5 DEF SumOf

LEMMA BookedSteps ==
    ASSUME BookOpen
    PROVE  /\ \A n \in 0..Len(bank) : Booked(n) \in Int /\ Outstanding(n) \in Int
           /\ \A n \in 0..Len(bank) : Booked(n) = BankOpening + SumFunctionOnSet(Deltas, 1..n)
           /\ \A n \in 1..Len(bank) : Booked(n) = Booked(n - 1) + bank[n].delta
<1>0. BankOpening \in Int
    BY FiguresAssumption
<1>1. ASSUME NEW n \in 0..Len(bank)
      PROVE  /\ Booked(n) \in Int /\ Outstanding(n) \in Int
             /\ Booked(n) = BankOpening + SumFunctionOnSet(Deltas, 1..n)
    <2>1. 1..n \subseteq 1..Len(bank) /\ {i \in 1..n : bank[i].debt} \subseteq 1..Len(bank)
        BY BookType
    <2>2. Booked(n) = BankOpening + SumFunctionOnSet(Deltas, 1..n) /\ SumFunctionOnSet(Deltas, 1..n) \in Int
        BY <2>1, SpanSums DEF Booked
    <2>3. Outstanding(n) \in Int
        BY <2>1, SpanSums DEF Outstanding
    <2>4. QED BY <1>0, <2>2, <2>3
<1>2. ASSUME NEW n \in 1..Len(bank) PROVE Booked(n) = Booked(n - 1) + bank[n].delta
    <2>1. /\ n \in 0..Len(bank) /\ n - 1 \in 0..Len(bank)
          /\ 1..n = (1..n - 1) \cup {n} /\ n \notin 1..n - 1 /\ 1..n - 1 \subseteq 1..Len(bank)
        BY BookType
    <2>2. IsFiniteSet(1..n - 1) /\ SumFunctionOnSet(Deltas, 1..n - 1) \in Int
        BY <2>1, SpanSums
    <2>3. Deltas[n] = bank[n].delta /\ Deltas[n] \in Int /\ \A i \in 1..n - 1 : Deltas[i] \in Int
        BY <2>1, BookType
    <2>4. SumFunctionOnSet(Deltas, 1..n) = Deltas[n] + SumFunctionOnSet(Deltas, 1..n - 1)
        BY <2>1, <2>2, <2>3, SumAdd
    <2>5. \A a, b, c \in Int : a + (b + c) = (a + c) + b
        OBVIOUS
    <2>6. Booked(n) = BankOpening + SumFunctionOnSet(Deltas, 1..n) /\
          Booked(n - 1) = BankOpening + SumFunctionOnSet(Deltas, 1..n - 1)
        BY <1>1, <2>1
    <2>7. QED BY <1>0, <2>2, <2>3, <2>4, <2>5, <2>6
<1>3. QED BY <1>1, <1>2

TheLine == Line(1..MaxTime, Seq(STRING))

LEMMA LineType ==
    ASSUME BookOpen, NEW i \in 1..Len(bank)
    PROVE  /\ LineOf(i) \in TheLine
           /\ LineOf(i).time = bank[i].time /\ LineOf(i).text = <<bank[i].text>>
           /\ LineOf(i).amount = Abs(bank[i].delta)
           /\ LineOf(i).direction = IF bank[i].delta > 0 THEN "in" ELSE "out"
           /\ ~bank[i].debt => LineOf(i).balance = Booked(i)
<1>1. /\ bank[i].time \in 1..MaxTime /\ bank[i].text \in STRING
      /\ bank[i].delta \in Int
    BY BookType
<1>2. Abs(bank[i].delta) \in Nat
    BY <1>1, AbsType
<1>3. Booked(i) \in Int /\ Outstanding(i) \in Int
    <2>1. i \in 0..Len(bank)
        BY BookType
    <2>2. QED BY <2>1, BookedSteps
<1>4. <<bank[i].text>> \in Seq(STRING)
    BY <1>1
<1>5. QED BY <1>1, <1>2, <1>3, <1>4 DEF LineOf, TheLine, Line, Directions

-----------------------------------------------------------------------------
LEMMA AboveType ==
    ASSUME BookOpen, NEW first \in 1..Len(bank), NEW furniture \in Furniture, NEW i \in first..Len(bank)
    PROVE  Above(first, furniture, i) \in Seq(STRING)
<1>1. i \in 1..Len(bank) /\ (i # first => i - 1 \in 1..Len(bank))
    <2>1. Len(bank) \in Nat
        BY BookType
    <2>2. QED BY <2>1
<1>2. PICK lead : lead = IF i = first THEN <<>> ELSE bank[i - 1].below
    OBVIOUS
<1>3. PICK top : top = IF i = first \/ i \in furniture.pages THEN <<furniture.heading>> ELSE <<>>
    OBVIOUS
<1>4. lead \in Seq(STRING)
    <2>1. i # first => bank[i - 1].below \in Seq(STRING)
        BY <1>1, BookType
    <2>2. CASE i = first
        BY <1>2, <2>2
    <2>3. CASE i # first
        BY <1>2, <2>1, <2>3
    <2>4. QED BY <2>2, <2>3
<1>5. top \in Seq(STRING)
    <2>1. furniture.heading \in STRING
        BY DEF Furniture
    <2>2. CASE i = first \/ i \in furniture.pages
        <3>1. PICK heading \in STRING : heading = furniture.heading
            BY <2>1
        <3>2. top = <<heading>>
            BY <1>3, <2>2, <3>1
        <3>3. <<heading>> \in Seq(STRING)
            BY <3>1
        <3>4. QED BY <3>2, <3>3
    <2>3. CASE ~(i = first \/ i \in furniture.pages)
        <3>1. top = <<>>
            BY <1>3, <2>3
        <3>2. <<>> \in Seq(STRING)
            OBVIOUS
        <3>3. QED BY <3>1, <3>2
    <2>4. QED BY <2>2, <2>3
<1>6. Above(first, furniture, i) = lead \o top
    BY <1>2, <1>3 DEF Above
<1>7. QED BY <1>4, <1>5, <1>6, ConcatProperties

LEMMA FurnitureType == ASSUME BookOpen PROVE setup.furniture \subseteq Furniture
BY FiguresAssumption DEF BookOpen

(* A statement of the bank's movements. *)
LEMMA StatementType ==
    ASSUME BookOpen, NEW first \in 1..Len(bank), NEW last \in first..Len(bank), NEW lost, NEW anchor \in BOOLEAN,
           NEW furniture \in Furniture
    PROVE  LET s == StatementOf(first, last, lost, anchor, furniture)
           IN  /\ s.lines \in Seq(TheLine) /\ Len(s.lines) = last - first + 1
               /\ \A k \in 1..last - first + 1 :
                     /\ first + k - 1 \in first..last
                     /\ s.lines[k] = LineOf(first + k - 1)
               /\ s.lost = lost
               /\ s.opening = IF anchor THEN Booked(first - 1) ELSE None
               /\ Booked(first - 1) \in Int
<1> DEFINE s == StatementOf(first, last, lost, anchor, furniture)
           n == last - first + 1
<1>1. n \in Nat /\ \A k \in 1..n : first + k - 1 \in first..last /\ first + k - 1 \in 1..Len(bank)
    BY BookType
<1>2. s.lines = [k \in 1..n |-> LineOf(first + k - 1)]
    BY DEF StatementOf
<1>3. \A k \in 1..n : LineOf(first + k - 1) \in TheLine
    BY <1>1, LineType
<1>4. s.lines \in Seq(TheLine) /\ Len(s.lines) = n /\ \A k \in 1..n : s.lines[k] = LineOf(first + k - 1)
    <2> HIDE DEF s, n
    <2> QED BY <1>1, <1>2, <1>3
<1>5. s.lost = lost /\ s.opening = IF anchor THEN Booked(first - 1) ELSE None
    BY DEF StatementOf
<1>6. Booked(first - 1) \in Int
    <2>1. first - 1 \in 0..Len(bank)
        BY BookType
    <2>2. QED BY <2>1, BookedSteps
<1>7. QED BY <1>1, <1>4, <1>5, <1>6

LEMMA StatementAbove ==
    ASSUME BookOpen, NEW first \in 1..Len(bank), NEW last \in first..Len(bank), NEW lost, NEW anchor \in BOOLEAN,
           NEW furniture \in Furniture, NEW above, above = StatementOf(first, last, lost, anchor, furniture).above
    PROVE  /\ above \in [1..last - first + 1 -> Seq(STRING)]
           /\ \A k \in 1..last - first + 1 : above[k] = Above(first, furniture, first + k - 1)
<1>1. above = [k \in 1..last - first + 1 |-> Above(first, furniture, first + k - 1)]
    BY DEF StatementOf
<1>2. \A k \in 1..last - first + 1 : first + k - 1 \in first..Len(bank)
    BY BookType
<1>3. \A k \in 1..last - first + 1 : Above(first, furniture, first + k - 1) \in Seq(STRING)
    BY <1>2, AboveType
<1>4. QED BY <1>1, <1>3

(* The parts of a book: what it books from first to last. *)
LEMMA BookedBetween ==
    ASSUME BookOpen, NEW first \in 1..Len(bank), NEW last \in first..Len(bank)
    PROVE  /\ SumFunctionOnSet(Deltas, first..last) \in Int
           /\ Booked(last) = Booked(first - 1) + SumFunctionOnSet(Deltas, first..last)
<1>1. /\ first - 1 \in 0..Len(bank) /\ last \in 0..Len(bank)
      /\ 1..last = (1..first - 1) \cup (first..last) /\ (1..first - 1) \cap (first..last) = {}
      /\ 1..first - 1 \subseteq 1..Len(bank) /\ first..last \subseteq 1..Len(bank)
    BY BookType
<1>2. /\ IsFiniteSet(1..first - 1) /\ IsFiniteSet(first..last)
      /\ SumFunctionOnSet(Deltas, 1..first - 1) \in Int /\ SumFunctionOnSet(Deltas, first..last) \in Int
    BY <1>1, SpanSums
<1>3. \A i \in (1..first - 1) \cup (first..last) : Deltas[i] \in Int
    BY <1>1, BookType
<1>4. SumFunctionOnSet(Deltas, 1..last)
        = SumFunctionOnSet(Deltas, 1..first - 1) + SumFunctionOnSet(Deltas, first..last)
    BY <1>1, <1>2, <1>3, SumDisjointUnion
<1>5. /\ Booked(last) = BankOpening + SumFunctionOnSet(Deltas, 1..last)
      /\ Booked(first - 1) = BankOpening + SumFunctionOnSet(Deltas, 1..first - 1)
    BY <1>1, BookedSteps
<1>6. BankOpening \in Int
    BY FiguresAssumption
<1>7. \A a, b, c \in Int : a + (b + c) = (a + b) + c
    OBVIOUS
<1>8. QED BY <1>2, <1>4, <1>5, <1>6, <1>7

(* Equity Bank's line of totals gives the opening balance. *)
LEMMA TotalsGiveOpening ==
    ASSUME BookOpen, NEW first \in 1..Len(bank), NEW last \in first..Len(bank), NEW lost,
           NEW furniture
    PROVE  LET t == StatementOf(first, last, lost, TRUE, furniture).total
           IN  t # None /\ t.closing - t.credit + t.debit = Booked(first - 1)
<1> DEFINE t == StatementOf(first, last, lost, TRUE, furniture).total
           S == first..last
           up == {i \in S : bank[i].delta > 0}
           down == {i \in S : bank[i].delta < 0}
           credits == [i \in S |-> IF bank[i].delta > 0 THEN bank[i].delta ELSE 0]
           debits == [i \in S |-> IF bank[i].delta < 0 THEN -bank[i].delta ELSE 0]
           f == [i \in up |-> bank[i].delta]
           g == [i \in down |-> -bank[i].delta]
<1>1. S \subseteq 1..Len(bank) /\ IsFiniteSet(S) /\ IsFiniteSet(up) /\ IsFiniteSet(down)
    <2>1. S \subseteq 1..Len(bank)
        BY BookType
    <2>2. IsFiniteSet(S)
        BY <2>1, SpanSums
    <2>3. QED BY <2>1, <2>2, FS_Subset
<1>2. \A i \in S : bank[i].delta \in Int /\ Deltas[i] = bank[i].delta
    BY <1>1, BookType
<1>3. \A i \in S : credits[i] \in Int /\ debits[i] \in Int /\ Deltas[i] \in Int /\ credits[i] = Deltas[i] + debits[i]
    BY <1>2
<1>4. /\ up \subseteq S /\ \A i \in up : f[i] \in Int /\ f[i] = credits[i]
      /\ \A i \in S \ up : credits[i] = 0
    BY <1>2
<1>5. /\ down \subseteq S /\ \A i \in down : g[i] \in Int /\ g[i] = debits[i]
      /\ \A i \in S \ down : debits[i] = 0
    BY <1>2
<1>6. Credits(first, last) = SumFunctionOnSet(f, up) /\ Debits(first, last) = SumFunctionOnSet(g, down)
    BY DEF Credits, Debits, SumOf
<1> HIDE DEF up, down, credits, debits, f, g
<1>7. Credits(first, last) = SumFunctionOnSet(credits, S)
    <2>1. SumFunctionOnSet(f, up) = SumFunctionOnSet(credits, up)
        BY <1>1, <1>4, SumEqual
    <2>2. SumFunctionOnSet(credits, S) = SumFunctionOnSet(credits, up)
        BY <1>1, <1>3, <1>4, SumIgnoresZeros
    <2>3. QED BY <1>6, <2>1, <2>2
<1>8. Debits(first, last) = SumFunctionOnSet(debits, S)
    <2>1. SumFunctionOnSet(g, down) = SumFunctionOnSet(debits, down)
        BY <1>1, <1>5, SumEqual
    <2>2. SumFunctionOnSet(debits, S) = SumFunctionOnSet(debits, down)
        BY <1>1, <1>3, <1>5, SumIgnoresZeros
    <2>3. QED BY <1>6, <2>1, <2>2
<1>9. SumFunctionOnSet(credits, S) = SumFunctionOnSet(Deltas, S) + SumFunctionOnSet(debits, S)
    BY <1>1, <1>3, SumPlus
<1>10. /\ SumFunctionOnSet(Deltas, S) \in Int
       /\ Booked(last) = Booked(first - 1) + SumFunctionOnSet(Deltas, S)
    BY BookedBetween
<1> HIDE DEF S
<1>11. Booked(last) \in Int /\ Booked(first - 1) \in Int /\ SumFunctionOnSet(debits, S) \in Int
    <2>1. last \in 0..Len(bank) /\ first - 1 \in 0..Len(bank)
        BY BookType
    <2>2. SumFunctionOnSet(debits, S) \in Int
        BY <1>1, <1>3, SumType
    <2>3. QED BY <2>1, <2>2, BookedSteps
<1>12. Credits(first, last) \in Int /\ Debits(first, last) \in Int
    BY <1>7, <1>8, <1>9, <1>10, <1>11
<1>13. Booked(last) - Credits(first, last) + Debits(first, last) = Booked(first - 1)
    <2>1. \A a, b, d \in Int : (a + b) - (b + d) + d = a
        OBVIOUS
    <2>2. QED BY <1>7, <1>8, <1>9, <1>10, <1>11, <2>1
<1>14. t = [closing |-> Booked(last), credit |-> Credits(first, last), debit |-> Debits(first, last)]
    BY DEF StatementOf
<1>15. t # None
    <2>1. [closing |-> Booked(last), credit |-> Credits(first, last), debit |-> Debits(first, last)]
            \in [closing : Int, credit : Int, debit : Int]
        BY <1>11, <1>12
    <2>2. None \notin [closing : Int, credit : Int, debit : Int]
        BY FiguresAssumption
    <2> HIDE DEF t
    <2>3. QED BY <1>14, <2>1, <2>2
<1>16. t.closing - t.credit + t.debit = Booked(first - 1)
    <2> HIDE DEF t
    <2>1. t.closing = Booked(last) /\ t.credit = Credits(first, last) /\ t.debit = Debits(first, last)
        BY <1>14
    <2>2. QED BY <1>13, <2>1
<1>17. QED BY <1>15, <1>16

-----------------------------------------------------------------------------
LEMMA AddType == \A a, b \in Int : a - b \in Int /\ a + b \in Int
OBVIOUS

(* What a parser makes of a statement of the bank's. *)
LEMMA ParsedType ==
    ASSUME BookOpen, NEW first \in 1..Len(bank), NEW last \in first..Len(bank),
           NEW lost \in 0..last - first + 1, NEW anchor \in BOOLEAN, NEW furniture \in Furniture,
           NEW rows, rows = Parse(setup.provider, StatementOf(first, last, lost, anchor, furniture)), rows # None
    PROVE  rows \in Seq(TheLine)
<1> DEFINE s == StatementOf(first, last, lost, anchor, furniture)
<1>1. /\ s.lines \in Seq(TheLine) /\ Len(s.lines) = last - first + 1 /\ s.lost = lost
      /\ s.opening = IF anchor THEN Booked(first - 1) ELSE None
      /\ Booked(first - 1) \in Int
    BY StatementType
<1>20. s.above \in [1..last - first + 1 -> Seq(STRING)]
    BY StatementAbove
<1>2. s.total = None \/ s.total.closing - s.total.credit + s.total.debit = Booked(first - 1)
    <2>1. CASE anchor
        <3>1. anchor = TRUE
            BY <2>1
        <3>2. QED BY <3>1, TotalsGiveOpening
    <2>2. CASE ~anchor
        BY <2>2 DEF StatementOf
    <2>3. QED BY <2>1, <2>2
<1> HIDE DEF s
<1>3. Found(s) \in Seq(TheLine)
    BY <1>1, FoundLines DEF TheLine
<1>4. EquityLines(s) \in Seq(TheLine)
    BY <1>1, <1>20, FoldedLines DEF TheLine
<1>5. \A lines \in Seq(TheLine), opening \in Int : Chained(lines, opening) \in Seq(TheLine)
    BY ChainedType DEF TheLine
<1>6. rows = Parse(setup.provider, s)
    BY DEF s
<1>7. CASE setup.provider = "NCBA Bank"
    <2>1. rows = ParseNcba(s)
        BY <1>6, <1>7 DEF Parse
    <2>2. s.opening \in Int /\ rows = Chained(Found(s), s.opening)
        BY <1>1, <2>1 DEF ParseNcba, Validated
    <2>3. QED BY <1>3, <1>5, <2>2
<1>8. CASE setup.provider = "Equity Bank"
    <2> DEFINE opening == s.total.closing - s.total.credit + s.total.debit
    <2>1. rows = ParseEquity(s)
        BY <1>6, <1>8 DEF Parse
    <2>2. s.total # None /\ opening \in Int
        BY <1>1, <1>2, <2>1 DEF ParseEquity
    <2>3. rows = Chained(EquityLines(s), opening)
        BY <2>1, <2>2 DEF ParseEquity, Validated
    <2>4. QED BY <1>4, <1>5, <2>2, <2>3
<1>9. CASE setup.provider = "Mentor Sacco"
    <2> DEFINE opening == SectionOpening(s)
    <2>1. rows = ParseSection(s)
        BY <1>6, <1>9 DEF Parse
    <2>2. opening \in Int
        <3>1. CASE s.opening # None \/ Found(s) = <<>>
            BY <1>1, <3>1 DEF SectionOpening
        <3>2. CASE s.opening = None /\ Found(s) # <<>>
            <4>1. Found(s)[1] \in TheLine
                BY <1>3, <3>2
            <4>2. Found(s)[1].balance \in Int /\ Found(s)[1].amount \in Int
                BY <4>1 DEF TheLine, Line
            <4>3. opening = Found(s)[1].balance - Found(s)[1].amount
                BY <3>2 DEF SectionOpening
            <4>4. QED BY <4>2, <4>3, AddType
        <3>3. QED BY <3>1, <3>2
    <2>3. rows = Chained(Found(s), opening)
        BY <2>1 DEF ParseSection, Validated
    <2>4. QED BY <1>3, <1>5, <2>2, <2>3
<1>10. CASE setup.provider = "M-Pesa"
    <2> DEFINE t == Reverse(Found(s))
    <2>1. rows = ResolveLeadingTie(Ascending(t))
        BY <1>6, <1>10 DEF Parse, ParseMpesa
    <2>2. t \in Seq(TheLine)
        BY <1>3, ReverseRows
    <2> HIDE DEF t
    <2>3. Ascending(t) \in Seq(TheLine)
        <3>1. 1..MaxTime \subseteq Int
            OBVIOUS
        <3>2. QED BY <2>2, <3>1, AscendingRows DEF TheLine
    <2>4. QED BY <2>1, <2>3, ResolvedRows
<1>11. setup.provider \in {"NCBA Bank", "Equity Bank", "Mentor Sacco", "M-Pesa"}
    BY FiguresAssumption DEF BookOpen
<1>12. QED BY <1>7, <1>8, <1>9, <1>10, <1>11

(* Those of them that are posted. *)
LEMMA FreshType ==
    ASSUME NEW X, NEW rows \in Seq(X)
    PROVE  Fresh(rows) \in Seq(X) /\ DOMAIN Fresh(rows) = 1..Len(Fresh(rows))
<1> DEFINE known == {Fingerprint(transactions[t]) : t \in Posted}
           isNew == {i \in DOMAIN rows :
                        Fingerprint(rows[i]) \notin known \cup {Fingerprint(rows[j]) : j \in 1..i - 1}}
           before == {p \in isNew \X isNew : p[1] < p[2]}
           n == Cardinality(isNew)
<1>1. isNew \subseteq 1..Len(rows) /\ IsFiniteSet(isNew)
    BY Positions, FS_Subset
<1>2. Fresh(rows) = [k \in 1..n |-> rows[Sorted(isNew, before)[k]]]
    BY DEF Fresh
<1> HIDE DEF isNew
<1>3. IsOrder(isNew, before)
    <2>1. isNew \subseteq Int
        BY <1>1
    <2>2. \A i, j \in isNew : <<i, j>> \in before <=> i < j
        OBVIOUS
    <2> HIDE DEF before
    <2>3. QED BY <2>1, <2>2 DEF IsOrder
<1> HIDE DEF before
<1>4. n \in Nat /\ Sorted(isNew, before) \in Bijection(1..n, isNew)
    BY <1>1, <1>3, SortedSet
<1>5. \A k \in 1..n : Sorted(isNew, before)[k] \in 1..Len(rows)
    BY <1>1, <1>4 DEF Bijection, Injection
<1>6. \A k \in 1..n : rows[Sorted(isNew, before)[k]] \in X
    BY <1>5
<1>7. QED BY <1>2, <1>4, <1>6

-----------------------------------------------------------------------------
Targets == Categories \cup {NoCategory, Transfer}

Row == [account : Accounts, day : Days, amount : Nat, direction : Directions, text : Seq(STRING) \cup {None},
        balance : Int \cup {NoBalance}, currency : Currencies, batch : Nat]

Share == [txn : Nat, target : Targets, amount : Nat, source : Accounts \cup {None}]

Import == [first : 1..Len(bank), last : 1..Len(bank), lost : Nat, anchor : BOOLEAN,
           furniture : Furniture, accepted : BOOLEAN,
           opening : Int \cup {None}]

Typed ==
    /\ BookOpen
    /\ imports \in Seq(Import) /\ \A k \in DOMAIN imports : imports[k].first <= imports[k].last
    /\ currencyOf \in [Accounts -> Currencies]
    /\ transactions \in Seq(Row)
    /\ allocations \in Seq(Share) /\ \A a \in DOMAIN allocations : allocations[a].txn \in Txn

LEMMA BatchType ==
    ASSUME transactions \in Seq(Row)
    PROVE  /\ IsFiniteSet({transactions[t].batch : t \in Txn})
           /\ NextBatch \in Nat /\ NextBatch = 1 + Cardinality({transactions[t].batch : t \in Txn})
<1> DEFINE batches == {transactions[t].batch : t \in Txn}
           batchOf == [t \in Txn |-> transactions[t].batch]
<1>1. IsFiniteSet(Txn)
    BY Positions DEF Txn
<1>2. batchOf \in Surjection(Txn, batches)
    BY DEF Surjection
<1> HIDE DEF batches, batchOf
<1>3. IsFiniteSet(batches)
    BY <1>1, <1>2, FS_Surjection
<1>4. Cardinality(batches) \in Nat
    BY <1>3, FS_CardinalityType
<1>5. QED BY <1>3, <1>4 DEF NextBatch, batches

LEMMA DeltaType ==
    ASSUME NEW row \in TheLine PROVE Delta(row) \in Int /\ row.balance - Delta(row) \in Int
<1>1. row.amount \in Int /\ -row.amount \in Int /\ row.balance \in Int
    BY DEF TheLine, Line
<1>2. Delta(row) \in Int
    BY <1>1 DEF Delta
<1>3. QED BY <1>1, <1>2

LEMMA InsertedType ==
    ASSUME transactions \in Seq(Row), BookOpen, NEW rows \in Seq(TheLine)
    PROVE  /\ InsertTransactions(rows) \in Seq(Row)
           /\ Len(InsertTransactions(rows)) = Len(transactions) + Len(Fresh(rows))
           /\ \A t \in Txn : t \in DOMAIN InsertTransactions(rows)
<1> DEFINE fresh == Fresh(rows)
           RowOf(row) == [account |-> Account, day |-> DayOf(row.time), amount |-> row.amount,
                          direction |-> row.direction, text |-> row.text, balance |-> row.balance,
                          currency |-> StatementCurrency(setup.provider, setup.named), batch |-> NextBatch]
           added == [k \in DOMAIN fresh |-> RowOf(fresh[k])]
<1>1. fresh \in Seq(TheLine) /\ DOMAIN fresh = 1..Len(fresh) /\ Len(fresh) \in Nat
    BY FreshType
<1>2. \A row \in TheLine : RowOf(row) \in Row
    <2> SUFFICES ASSUME NEW row \in TheLine PROVE RowOf(row) \in Row
        OBVIOUS
    <2>1. /\ row.time \in 1..MaxTime /\ row.amount \in Nat /\ row.direction \in Directions
          /\ row.text \in Seq(STRING) /\ row.balance \in Int
        BY DEF TheLine, Line
    <2>2. DayOf(row.time) \in Days
        BY <2>1, FiguresAssumption
    <2>3. Account \in Accounts /\ NextBatch \in Nat
        BY FiguresAssumption, BatchType
    <2>4. StatementCurrency(setup.provider, setup.named) \in Currencies
        BY FiguresAssumption DEF StatementCurrency, BookOpen
    <2> HIDE DEF RowOf
    <2>5. RowOf(row) = [account |-> Account, day |-> DayOf(row.time), amount |-> row.amount,
                          direction |-> row.direction, text |-> row.text, balance |-> row.balance,
                          currency |-> StatementCurrency(setup.provider, setup.named), batch |-> NextBatch]
        BY DEF RowOf
    <2>6. QED BY <2>1, <2>2, <2>3, <2>4, <2>5 DEF Row
<1> HIDE DEF RowOf, fresh
<1>3. added \in Seq(Row) /\ Len(added) = Len(fresh)
    BY <1>1, <1>2
<1>4. InsertTransactions(rows) = transactions \o added
    BY DEF InsertTransactions, RowOf, fresh
<1> HIDE DEF added
<1>5. /\ transactions \o added \in Seq(Row)
      /\ Len(transactions \o added) = Len(transactions) + Len(added)
    BY <1>3, ConcatRows
<1>6. Txn = 1..Len(transactions) /\ Len(transactions) \in Nat
    BY DEF Txn
<1>7. QED BY <1>1, <1>3, <1>4, <1>5, <1>6 DEF fresh

(* Whatever the parsers make of a statement, whichever line of it is lost, *)
(* are rows that the ledger can hold, and no allocation is of a            *)
(* transaction that is not there: insert_transactions, entries by hand and *)
(* create_allocations_endpoint.                                            *)
THEOREM FiguresTyped == Spec => []Typed
<1>1. Init => Typed
    <2> SUFFICES ASSUME Init PROVE Typed
        OBVIOUS
    <2>1. setup.currencies \in [Accounts -> Currencies]
        BY FiguresAssumption DEF Init
    <2>2. QED BY <2>1 DEF Init, Typed, BookOpen
<1>2. ASSUME Typed, [Next]_figures PROVE Typed'
    <2>0. /\ BookOpen /\ imports \in Seq(Import) /\ transactions \in Seq(Row) /\ allocations \in Seq(Share)
          /\ currencyOf \in [Accounts -> Currencies] /\ DOMAIN bank = 1..Len(bank) /\ Len(bank) \in Nat
          /\ Txn = 1..Len(transactions)
        BY <1>2, BookType DEF Typed, Txn
    <2>1. ASSUME NEW first \in DOMAIN bank, NEW anchor \in BOOLEAN, NEW furniture \in setup.furniture,
                 NEW last \in first..Len(bank), NEW lost \in 0..last - first + 1, ImportStatement(first, last, lost, anchor, furniture)
          PROVE  Typed'
        <3> DEFINE rows == Parse(setup.provider, StatementOf(first, last, lost, anchor, furniture))
                   import == [first |-> first, last |-> last, lost |-> lost, anchor |-> anchor,
                              furniture |-> furniture, accepted |-> rows # None,
                              opening |-> IF rows = None THEN None ELSE DerivedOpening(rows)]
        <3>0. furniture \in Furniture
            BY <2>0, FurnitureType
        <3>1. rows # None => rows \in Seq(TheLine)
            BY <2>0, <3>0, ParsedType
        <3>2. /\ imports' = Append(imports, import)
              /\ transactions' = IF rows = None THEN transactions ELSE InsertTransactions(rows)
              /\ UNCHANGED <<setup, bank, currencyOf, allocations>>
            BY <2>1 DEF ImportStatement
        <3> HIDE DEF rows
        <3>3. import \in Import /\ import.first <= import.last
            <4>1. rows # None => DerivedOpening(rows) \in Int \cup {None}
                <5>1. rows # None /\ rows # <<>> => rows[1] \in TheLine
                    BY <3>1
                <5>2. QED BY <5>1, DeltaType DEF DerivedOpening
            <4>2. first \in 1..Len(bank) /\ last \in 1..Len(bank) /\ lost \in Nat /\ first <= last
                BY <2>0
            <4>3. QED BY <3>0, <4>1, <4>2 DEF Import
        <3>4. bank' = bank /\ setup' = setup /\ currencyOf' = currencyOf /\ allocations' = allocations
            BY <3>2
        <3>5. transactions' \in Seq(Row) /\ \A t \in Txn : t \in DOMAIN transactions'
            <4>1. CASE rows = None
                BY <2>0, <3>2, <4>1 DEF Txn
            <4>2. CASE rows # None
                BY <2>0, <3>1, <3>2, <4>2, InsertedType
            <4>3. QED BY <4>1, <4>2
        <3>6. imports' \in Seq(Import) /\ \A k \in DOMAIN imports' : imports'[k].first <= imports'[k].last
            <4> HIDE DEF import
            <4>1. \A k \in 1..Len(imports) : imports[k].first <= imports[k].last
                BY <1>2 DEF Typed
            <4>2. imports' \in Seq(Import) /\ Len(imports') = Len(imports) + 1
                BY <2>0, <3>2, <3>3
            <4>3. \A k \in 1..Len(imports) + 1 :
                      imports'[k] = IF k = Len(imports) + 1 THEN import ELSE imports[k]
                BY <2>0, <3>2
            <4>4. DOMAIN imports' = 1..Len(imports) + 1 /\ Len(imports) \in Nat
                BY <2>0, <4>2
            <4>5. ASSUME NEW k \in 1..Len(imports) + 1 PROVE imports'[k].first <= imports'[k].last
                <5>1. CASE k = Len(imports) + 1
                    BY <3>3, <4>3, <5>1
                <5>2. CASE k # Len(imports) + 1
                    BY <4>1, <4>3, <4>4, <5>2
                <5>3. QED BY <5>1, <5>2
            <4>6. QED BY <4>2, <4>4, <4>5
        <3>7. Import' = Import /\ BookOpen'
            BY <2>0, <3>4 DEF Import, BookOpen
        <3>8. \A a \in DOMAIN allocations' : allocations'[a].txn \in DOMAIN transactions'
            BY <1>2, <3>4, <3>5 DEF Typed
        <3>9. QED BY <2>0, <3>4, <3>5, <3>6, <3>7, <3>8 DEF Typed, Txn
    <2>2. ASSUME NEW account \in Accounts, NEW day \in Days, NEW direction \in Directions,
                 EnterManually(account, day, direction)
          PROVE  Typed'
        <3> DEFINE row == [account |-> account, day |-> day, amount |-> ManualAmount, direction |-> direction,
                           text |-> None, balance |-> NoBalance, currency |-> currencyOf[account],
                           batch |-> NextBatch]
        <3>1. /\ transactions' = Append(transactions, row)
              /\ UNCHANGED <<setup, bank, imports, currencyOf, allocations>>
            BY <2>2 DEF EnterManually
        <3>2. row \in Row
            <4>1. NextBatch \in Nat
                BY <2>0, BatchType
            <4>2. ManualAmount \in Nat /\ currencyOf[account] \in Currencies
                BY <2>0, FiguresAssumption
            <4>3. QED BY <4>1, <4>2 DEF Row
        <3> HIDE DEF row
        <3>3. transactions' \in Seq(Row) /\ Len(transactions') = Len(transactions) + 1
            BY <2>0, <3>1, <3>2
        <3>4. \A t \in Txn : t \in DOMAIN transactions'
            BY <2>0, <3>3
        <3>5. bank' = bank /\ setup' = setup /\ imports' = imports /\ currencyOf' = currencyOf
              /\ allocations' = allocations
            BY <3>1
        <3>6. Import' = Import /\ BookOpen'
            BY <2>0, <3>5 DEF Import, BookOpen
        <3>7. \A a \in DOMAIN allocations' : allocations'[a].txn \in DOMAIN transactions'
            BY <1>2, <3>4, <3>5 DEF Typed
        <3>8. QED BY <1>2, <2>0, <3>3, <3>5, <3>6, <3>7 DEF Typed, Txn
    <2>3. ASSUME NEW t \in Txn, NEW amount \in SplitAmounts, NEW seen, NEW target \in Targets,
                 NEW source \in Accounts \cup {None}, Allocate(t, target, amount, source, seen)
          PROVE  Typed'
        <3> DEFINE share == [txn |-> t, target |-> target, amount |-> amount, source |-> source]
        <3>1. /\ allocations' = Append(allocations, share)
              /\ setup' = setup /\ bank' = bank /\ imports' = imports /\ currencyOf' = currencyOf
              /\ transactions' = transactions
            BY <2>3 DEF Allocate
        <3>2. share \in Share /\ share.txn \in Txn
            <4>1. t \in Nat
                BY <2>0
            <4>2. amount \in Nat
                <5>1. SplitAmounts \subseteq Nat \ {0}
                    BY FiguresAssumption
                <5>2. QED BY <5>1
            <4>3. QED BY <4>1, <4>2 DEF Share
        <3> HIDE DEF share
        <3>3. allocations' \in Seq(Share) /\ Len(allocations') = Len(allocations) + 1
            BY <2>0, <3>1, <3>2
        <3>4. \A a \in 1..Len(allocations) + 1 :
                  allocations'[a] = IF a = Len(allocations) + 1 THEN share ELSE allocations[a]
            BY <2>0, <3>1
        <3>5. \A a \in 1..Len(allocations) : allocations[a].txn \in Txn
            BY <1>2 DEF Typed
        <3>6. \A a \in DOMAIN allocations' : allocations'[a].txn \in Txn'
            <4>1. DOMAIN allocations' = 1..Len(allocations) + 1 /\ Len(allocations) \in Nat
                BY <2>0, <3>3
            <4>2. Txn' = Txn
                BY <3>1 DEF Txn
            <4>3. QED BY <3>2, <3>4, <3>5, <4>1, <4>2
        <3>7. Import' = Import /\ BookOpen'
            BY <2>0, <3>1 DEF Import, BookOpen
        <3>8. QED BY <1>2, <2>0, <3>1, <3>3, <3>6, <3>7 DEF Typed
    <2>4. CASE UNCHANGED figures
        <3>1. Import' = Import /\ BookOpen' /\ Txn' = Txn
            BY <2>0, <2>4 DEF Import, BookOpen, figures, Txn
        <3>2. QED BY <1>2, <2>4, <3>1 DEF Typed, figures
    <2>5. QED
        <3>1. ASSUME NEW t \in Txn, NEW amount \in SplitAmounts, NEW seen \in 0..Len(allocations),
                     \/ \E target \in Categories \cup {NoCategory} : Allocate(t, target, amount, None, seen)
                     \/ \E source \in Accounts \cup {None} : Allocate(t, Transfer, amount, source, seen)
              PROVE  Typed'
            <4>1. Categories \cup {NoCategory} \subseteq Targets /\ Transfer \in Targets
                BY DEF Targets
            <4>2. QED BY <2>3, <3>1, <4>1
        <3>2. CASE Next
            BY <2>1, <2>2, <3>1, <3>2 DEF Next
        <3>3. QED BY <1>2, <2>4, <3>2
<1>3. QED BY <1>1, <1>2, PTL DEF Spec

-----------------------------------------------------------------------------
Amounts == [t \in Txn |-> transactions[t].amount]
Shares  == [a \in DOMAIN allocations |-> allocations[a].amount]

AllocationsAmong(S) == {a \in DOMAIN allocations : allocations[a].txn \in S}

LEMMA TransactionType ==
    ASSUME Typed
    PROVE  /\ IsFiniteSet(Txn)
           /\ \A t \in Txn : /\ transactions[t] \in Row /\ transactions[t].amount \in Nat
                             /\ transactions[t].account \in Accounts /\ transactions[t].day \in Days
                             /\ transactions[t].direction \in {"in", "out"}
                             /\ transactions[t].currency \in Currencies
<1>1. transactions \in Seq(Row)
    BY DEF Typed
<1>2. IsFiniteSet(Txn) /\ \A t \in Txn : transactions[t] \in Row
    BY <1>1, Positions DEF Txn
<1>3. QED BY <1>2 DEF Row, Directions

LEMMA AllocationType ==
    ASSUME Typed
    PROVE  /\ IsFiniteSet(DOMAIN allocations)
           /\ \A a \in DOMAIN allocations : /\ allocations[a].txn \in Txn /\ allocations[a].amount \in Nat
                                            /\ allocations[a].target \in Targets
<1>1. allocations \in Seq(Share) /\ \A a \in DOMAIN allocations : allocations[a].txn \in Txn
    BY DEF Typed
<1>2. IsFiniteSet(DOMAIN allocations) /\ \A a \in DOMAIN allocations : allocations[a] \in Share
    BY <1>1, Positions
<1>3. QED BY <1>1, <1>2 DEF Share

LEMMA TransactionSums ==
    ASSUME Typed, NEW S \in SUBSET Txn
    PROVE  /\ IsFiniteSet(S) /\ \A t \in S : Amounts[t] \in Nat /\ Amounts[t] = AmountOf(t)
           /\ Sum(S) = SumFunctionOnSet(Amounts, S) /\ Sum(S) \in Int
<1>1. IsFiniteSet(S)
    BY TransactionType, FS_Subset
<1>2. \A t \in S : Amounts[t] \in Nat /\ Amounts[t] = AmountOf(t)
    BY TransactionType DEF Amounts, AmountOf
<1> DEFINE f == [t \in S |-> AmountOf(t)]
<1>3. \A t \in S : f[t] \in Int /\ f[t] = Amounts[t]
    BY <1>2
<1>4. SumFunctionOnSet(f, S) \in Int /\ SumFunctionOnSet(f, S) = SumFunctionOnSet(Amounts, S)
    <2> HIDE DEF f
    <2> QED BY <1>1, <1>3, SumEqual, SumType
<1>5. QED BY <1>1, <1>2, <1>4 DEF Sum, SumOf

LEMMA AllocationSums ==
    ASSUME Typed, NEW A \in SUBSET DOMAIN allocations
    PROVE  /\ IsFiniteSet(A) /\ \A a \in A : Shares[a] \in Nat
           /\ SumAllocs(A) = SumFunctionOnSet(Shares, A) /\ SumAllocs(A) \in Nat
<1>1. IsFiniteSet(A)
    BY AllocationType, FS_Subset
<1>2. \A a \in A : Shares[a] \in Nat /\ Shares[a] = Allocation(a)
    BY AllocationType DEF Shares, Allocation
<1> DEFINE f == [a \in A |-> Allocation(a)]
<1>3. \A a \in A : f[a] \in Nat /\ f[a] \in Int /\ f[a] = Shares[a]
    BY <1>2
<1>4. SumFunctionOnSet(f, A) \in Nat /\ SumFunctionOnSet(f, A) = SumFunctionOnSet(Shares, A)
    <2> HIDE DEF f
    <2> QED BY <1>1, <1>3, SumEqual, SumNat
<1>5. QED BY <1>1, <1>2, <1>4 DEF SumAllocs, SumOf

(* The allocations of several transactions, transaction by transaction. *)
LEMMA AllocatedSums ==
    ASSUME Typed, NEW S \in SUBSET Txn, NEW sums, \A t \in S : sums[t] = Allocated(t)
    PROVE  /\ \A t \in S : sums[t] \in Nat
           /\ SumAllocs(AllocationsAmong(S)) = SumFunctionOnSet(sums, S)
<1> DEFINE A == AllocationsAmong(S)
           g == [a \in A |-> allocations[a].txn]
<1>1. /\ A \subseteq DOMAIN allocations /\ IsFiniteSet(A) /\ \A a \in A : Shares[a] \in Int
      /\ SumAllocs(A) = SumFunctionOnSet(Shares, A)
    BY AllocationSums DEF AllocationsAmong
<1>2. \A a \in A : g[a] \in S
    BY DEF AllocationsAmong
<1>3. ASSUME NEW t \in S
      PROVE sums[t] \in Nat /\ sums[t] = SumFunctionOnSet(Shares, Part(A, g, t))
    <2>1. Part(A, g, t) = AllocationsOf(t) /\ AllocationsOf(t) \subseteq DOMAIN allocations
        BY DEF AllocationsOf, AllocationsAmong, Part
    <2>2. Allocated(t) = SumFunctionOnSet(Shares, AllocationsOf(t)) /\ Allocated(t) \in Nat
        BY <2>1, AllocationSums DEF Allocated
    <2>3. QED BY <2>1, <2>2
<1>4. IsFiniteSet(S)
    BY TransactionSums
<1> HIDE DEF A, g
<1>5. SumFunctionOnSet(Shares, A) = SumFunctionOnSet(sums, S)
    BY <1>1, <1>2, <1>3, <1>4, SumByParts
<1>6. QED BY <1>1, <1>3, <1>5 DEF A

(* What remains of the transactions, and what is too much. *)
LEMMA Remainders ==
    ASSUME Typed, NEW S \in SUBSET Txn
    PROVE  /\ Sum(S) \in Int /\ SumAllocs(AllocationsAmong(S)) \in Int
           /\ Excess(S) \in Int /\ Unreconciled(S) \in Int
           /\ Sum(S) + Excess(S) = SumAllocs(AllocationsAmong(S)) + Unreconciled(S)
<1> DEFINE over == {t \in S : Allocated(t) > AmountOf(t)}
           al == [t \in S |-> Allocated(t)]
           ex == [t \in S |-> IF Allocated(t) > AmountOf(t) THEN Allocated(t) - AmountOf(t) ELSE 0]
           un == [t \in S |-> IF Allocated(t) < AmountOf(t) THEN AmountOf(t) - Allocated(t) ELSE 0]
           both == [t \in S |-> AmountOf(t) + ex[t]]
           excess == [t \in over |-> Allocated(t) - AmountOf(t)]
<1>1. /\ IsFiniteSet(S) /\ \A t \in S : Amounts[t] \in Nat /\ Amounts[t] = AmountOf(t)
      /\ Sum(S) = SumFunctionOnSet(Amounts, S) /\ Sum(S) \in Int
    BY TransactionSums
<1>2. /\ \A t \in S : Allocated(t) \in Nat
      /\ SumAllocs(AllocationsAmong(S)) = SumFunctionOnSet(al, S)
    <2>1. \A t \in S : al[t] = Allocated(t)
        OBVIOUS
    <2>2. (\A t \in S : al[t] \in Nat) /\ SumAllocs(AllocationsAmong(S)) = SumFunctionOnSet(al, S)
        <3> HIDE DEF al
        <3> QED BY <2>1, AllocatedSums
    <2>3. QED BY <2>1, <2>2
<1>3. \A t \in S : /\ Amounts[t] \in Int /\ ex[t] \in Int /\ al[t] \in Int /\ un[t] \in Int
                   /\ both[t] = Amounts[t] + ex[t] /\ both[t] = al[t] + un[t]
    <2> SUFFICES ASSUME NEW t \in S
                 PROVE  /\ Amounts[t] \in Int /\ ex[t] \in Int /\ al[t] \in Int /\ un[t] \in Int
                        /\ both[t] = Amounts[t] + ex[t] /\ both[t] = al[t] + un[t]
        OBVIOUS
    <2>1. AmountOf(t) \in Nat /\ Amounts[t] = AmountOf(t) /\ Allocated(t) \in Nat
        BY <1>1, <1>2
    <2>2. QED BY <2>1
<1>4. Unreconciled(S) = SumFunctionOnSet(un, S)
    BY DEF Unreconciled, SumOf
<1>5. Excess(S) = SumFunctionOnSet(excess, over)
    BY DEF Excess, SumOf
<1>6. /\ over \subseteq S
      /\ \A t \in over : excess[t] \in Int /\ excess[t] = ex[t]
      /\ \A t \in S \ over : ex[t] = 0
    <2>1. \A t \in over : Allocated(t) \in Nat /\ AmountOf(t) \in Nat
        BY <1>1, <1>2
    <2>2. QED BY <2>1
<1> HIDE DEF over, al, ex, un, both, excess
<1>7. SumFunctionOnSet(excess, over) = SumFunctionOnSet(ex, S)
    <2>1. IsFiniteSet(over)
        BY <1>1, <1>6, FS_Subset
    <2>2. SumFunctionOnSet(excess, over) = SumFunctionOnSet(ex, over)
        BY <1>6, <2>1, SumEqual
    <2>3. SumFunctionOnSet(ex, S) = SumFunctionOnSet(ex, over)
        BY <1>1, <1>3, <1>6, SumIgnoresZeros
    <2>4. QED BY <2>2, <2>3
<1>8. SumFunctionOnSet(both, S) = SumFunctionOnSet(Amounts, S) + SumFunctionOnSet(ex, S)
    BY <1>1, <1>3, SumPlus
<1>9. SumFunctionOnSet(both, S) = SumFunctionOnSet(al, S) + SumFunctionOnSet(un, S)
    BY <1>1, <1>3, SumPlus
<1>10. /\ SumFunctionOnSet(ex, S) \in Int /\ SumFunctionOnSet(al, S) \in Int
       /\ SumFunctionOnSet(un, S) \in Int
    BY <1>1, <1>3, SumType
<1>11. QED BY <1>1, <1>2, <1>4, <1>5, <1>7, <1>8, <1>9, <1>10

-----------------------------------------------------------------------------
(* What is filed, target by target. *)
LEMMA FiledUnder ==
    ASSUME Typed, NEW S, NEW sums, \A c \in Categories : sums[c] = Filed(S, c)
    PROVE  /\ SumFunctionOnSet(sums, Categories) \in Int /\ Filed(S, NoCategory) \in Int
           /\ SumAllocs({a \in AllocationsAmong(S) : allocations[a].target # Transfer})
                = SumFunctionOnSet(sums, Categories) + Filed(S, NoCategory)
<1> DEFINE A == {a \in AllocationsAmong(S) : allocations[a].target # Transfer}
           B == {a \in A : allocations[a].target \in Categories}
           C == {a \in DOMAIN allocations : allocations[a].txn \in S /\ allocations[a].target = NoCategory}
           g == [a \in B |-> allocations[a].target]
<1>1. A \subseteq DOMAIN allocations /\ B \subseteq DOMAIN allocations /\ C \subseteq DOMAIN allocations
    BY DEF AllocationsAmong
<1>2. A = B \cup C /\ B \cap C = {}
    <2>1. \A a \in DOMAIN allocations : allocations[a].target \in Targets
        BY AllocationType
    <2>2. NoCategory \notin Categories /\ NoCategory # Transfer /\ Transfer \notin Categories
        BY ReportsAssumption
    <2>3. QED BY <2>1, <2>2 DEF AllocationsAmong, Targets
<1>3. Filed(S, NoCategory) = SumAllocs(C)
    BY DEF Filed
<1>4. \A c \in Categories : sums[c] = SumFunctionOnSet(Shares, Part(B, g, c))
    <2> SUFFICES ASSUME NEW c \in Categories PROVE sums[c] = SumFunctionOnSet(Shares, Part(B, g, c))
        OBVIOUS
    <2>1. Part(B, g, c) = {a \in DOMAIN allocations : allocations[a].txn \in S /\ allocations[a].target = c}
        <3>1. c # Transfer
            BY ReportsAssumption
        <3>2. QED BY <3>1 DEF Part, AllocationsAmong
    <2>2. Part(B, g, c) \subseteq DOMAIN allocations
        BY <2>1
    <2>3. Filed(S, c) = SumAllocs(Part(B, g, c))
        BY <2>1 DEF Filed
    <2> HIDE DEF B, g
    <2>4. SumAllocs(Part(B, g, c)) = SumFunctionOnSet(Shares, Part(B, g, c))
        BY <2>2, AllocationSums
    <2>5. sums[c] = Filed(S, c)
        OBVIOUS
    <2>6. QED BY <2>3, <2>4, <2>5
<1>6. \A a \in B : g[a] \in Categories
    OBVIOUS
<1> HIDE DEF A, B, C, g
<1>7. /\ IsFiniteSet(B) /\ IsFiniteSet(C) /\ \A a \in B \cup C : Shares[a] \in Int
      /\ SumAllocs(A) = SumFunctionOnSet(Shares, A)
      /\ SumAllocs(B) = SumFunctionOnSet(Shares, B) /\ SumAllocs(C) = SumFunctionOnSet(Shares, C)
      /\ SumAllocs(B) \in Int /\ SumAllocs(C) \in Int
    <2>1. /\ SumAllocs(A) = SumFunctionOnSet(Shares, A)
        BY <1>1, AllocationSums
    <2>2. /\ IsFiniteSet(B) /\ (\A a \in B : Shares[a] \in Int)
          /\ SumAllocs(B) = SumFunctionOnSet(Shares, B) /\ SumAllocs(B) \in Int
        BY <1>1, AllocationSums
    <2>3. /\ IsFiniteSet(C) /\ (\A a \in C : Shares[a] \in Int)
          /\ SumAllocs(C) = SumFunctionOnSet(Shares, C) /\ SumAllocs(C) \in Int
        BY <1>1, AllocationSums
    <2>4. QED BY <2>1, <2>2, <2>3
<1>8. SumFunctionOnSet(Shares, A) = SumFunctionOnSet(Shares, B) + SumFunctionOnSet(Shares, C)
    BY <1>2, <1>7, SumDisjointUnion
<1>9. SumFunctionOnSet(Shares, B) = SumFunctionOnSet(sums, Categories)
    BY <1>4, <1>6, <1>7, FiniteTables, SumByParts
<1>10. QED BY <1>3, <1>7, <1>8, <1>9 DEF A

LEMMA ReportFiles ==
    ASSUME Typed, NEW f
    PROVE  /\ Categorised(Report(f)) \in Int /\ Report(f).noCategory \in Int
           /\ SumAllocs({a \in AllocationsAmong(Matching(f)) : allocations[a].target # Transfer})
                = Categorised(Report(f)) + Report(f).noCategory
<1> DEFINE S == Matching(f)
           r == Report(f)
           sums == [c \in Categories |-> r.category[c]]
<1>1. r.category = [c \in Categories |-> Filed(S, c)] /\ r.noCategory = Filed(S, NoCategory)
    BY DEF Report
<1>2. Categorised(r) = SumFunctionOnSet(sums, Categories)
    BY DEF Categorised, SumOf
<1> HIDE DEF S, r
<1>3. \A c \in Categories : sums[c] = Filed(S, c)
    BY <1>1
<1> HIDE DEF sums
<1>4. /\ SumFunctionOnSet(sums, Categories) \in Int /\ Filed(S, NoCategory) \in Int
      /\ SumAllocs({a \in AllocationsAmong(S) : allocations[a].target # Transfer})
            = SumFunctionOnSet(sums, Categories) + Filed(S, NoCategory)
    BY <1>3, FiledUnder
<1>5. QED BY <1>1, <1>2, <1>4 DEF S, r

LEMMA MovedSums ==
    ASSUME Typed, NEW S \in SUBSET Txn
    PROVE  /\ Moved(S, "in") \in Int /\ Moved(S, "out") \in Int /\ Sum({t \in S : HasTransfer(t)}) \in Int
           /\ Moved(S, "in") + Moved(S, "out") + Sum({t \in S : HasTransfer(t)}) = Sum(S)
<1> DEFINE I == {t \in S : transactions[t].direction = "in" /\ ~HasTransfer(t)}
           O == {t \in S : transactions[t].direction = "out" /\ ~HasTransfer(t)}
           T == {t \in S : HasTransfer(t)}
<1>1. /\ I \subseteq Txn /\ O \subseteq Txn /\ T \subseteq Txn /\ I \cap O = {} /\ (I \cup O) \cap T = {}
    OBVIOUS
<1>2. S = (I \cup O) \cup T
    <2>1. \A t \in S : transactions[t].direction \in {"in", "out"}
        BY TransactionType
    <2>2. QED BY <2>1
<1>3. Moved(S, "in") = Sum(I) /\ Moved(S, "out") = Sum(O)
    BY DEF Moved
<1> HIDE DEF I, O, T
<1>4. IsFiniteSet(I) /\ Sum(I) = SumFunctionOnSet(Amounts, I) /\ Sum(I) \in Int /\ \A t \in I : Amounts[t] \in Int
    BY <1>1, TransactionSums
<1>5. IsFiniteSet(O) /\ Sum(O) = SumFunctionOnSet(Amounts, O) /\ Sum(O) \in Int /\ \A t \in O : Amounts[t] \in Int
    BY <1>1, TransactionSums
<1>6. IsFiniteSet(T) /\ Sum(T) = SumFunctionOnSet(Amounts, T) /\ Sum(T) \in Int /\ \A t \in T : Amounts[t] \in Int
    BY <1>1, TransactionSums
<1>7. Sum(S) = SumFunctionOnSet(Amounts, S)
    BY TransactionSums
<1>8. SumFunctionOnSet(Amounts, I \cup O) = Sum(I) + Sum(O)
    BY <1>1, <1>4, <1>5, SumDisjointUnion
<1>9. SumFunctionOnSet(Amounts, (I \cup O) \cup T) = SumFunctionOnSet(Amounts, I \cup O) + Sum(T)
    <2>1. IsFiniteSet(I \cup O) /\ \A t \in (I \cup O) \cup T : Amounts[t] \in Int
        BY <1>4, <1>5, <1>6, FS_Union
    <2>2. QED BY <1>1, <1>6, <2>1, SumDisjointUnion
<1>10. QED BY <1>2, <1>3, <1>4, <1>5, <1>6, <1>7, <1>8, <1>9 DEF T

(* Whatever a report selects, it accounts for. *)
LEMMA Accounted ==
    ASSUME Typed, NEW f \in Filter
    PROVE  LET S == Matching(f)
               r == Report(f)
               transferred == {a \in Transfers(Everything, f.from, f.to) : allocations[a].txn \in S}
           IN  r.in + r.out + Sum({t \in S : HasTransfer(t)})
                 = Categorised(r) + r.noCategory + SumAllocs(transferred) + r.unreconciled - Excess(S)
<1> DEFINE S == Matching(f)
           r == Report(f)
           transferred == {a \in Transfers(Everything, f.from, f.to) : allocations[a].txn \in S}
           A == AllocationsAmong(S)
           filed == {a \in A : allocations[a].target # Transfer}
<1>1. S \subseteq Txn
    BY DEF Matching
<1>2. /\ r.in = Moved(S, "in") /\ r.out = Moved(S, "out") /\ r.category = [c \in Categories |-> Filed(S, c)]
      /\ r.noCategory = Filed(S, NoCategory) /\ r.unreconciled = Unreconciled(S)
    BY DEF Report
<1>3. transferred = A \ filed /\ filed \subseteq A /\ A \subseteq DOMAIN allocations
    <2>1. \A a \in A : transactions[allocations[a].txn].day \in f.from..f.to
        BY DEF AllocationsAmong, Matching
    <2>2. QED BY <2>1 DEF Transfers, AllocationsAmong
<1> HIDE DEF S, r, transferred, A, filed
<1>4. SumAllocs(A) = SumAllocs(filed) + SumAllocs(transferred) /\ SumAllocs(filed) \in Int
      /\ SumAllocs(transferred) \in Int
    <2>1. /\ IsFiniteSet(A) /\ (\A a \in A : Shares[a] \in Int) /\ SumAllocs(A) = SumFunctionOnSet(Shares, A)
        BY <1>3, AllocationSums
    <2>2. filed \subseteq DOMAIN allocations /\ transferred \subseteq DOMAIN allocations
        BY <1>3
    <2>3. /\ IsFiniteSet(filed) /\ SumAllocs(filed) = SumFunctionOnSet(Shares, filed) /\ SumAllocs(filed) \in Int
        BY <2>2, AllocationSums
    <2>4. /\ IsFiniteSet(transferred) /\ SumAllocs(transferred) = SumFunctionOnSet(Shares, transferred)
          /\ SumAllocs(transferred) \in Int
        BY <2>2, AllocationSums
    <2>5. A = filed \cup transferred /\ filed \cap transferred = {}
        BY <1>3
    <2>6. SumFunctionOnSet(Shares, filed \cup transferred)
            = SumFunctionOnSet(Shares, filed) + SumFunctionOnSet(Shares, transferred)
        BY <2>1, <2>3, <2>4, <2>5, SumDisjointUnion
    <2>7. QED BY <2>1, <2>3, <2>4, <2>5, <2>6
<1>5. /\ Categorised(r) \in Int /\ r.noCategory \in Int
      /\ SumAllocs(filed) = Categorised(r) + r.noCategory
    BY ReportFiles DEF S, r, filed, A
<1>6. /\ r.in \in Int /\ r.out \in Int /\ Sum({t \in S : HasTransfer(t)}) \in Int
      /\ r.in + r.out + Sum({t \in S : HasTransfer(t)}) = Sum(S)
    BY <1>1, <1>2, MovedSums
<1>7. /\ Sum(S) \in Int /\ Excess(S) \in Int /\ r.unreconciled \in Int
      /\ Sum(S) + Excess(S) = SumAllocs(A) + r.unreconciled
    BY <1>1, <1>2, Remainders DEF A
<1>8. \A m, c, n, t, u, e \in Int : m + e = ((c + n) + t) + u => m = c + n + t + u - e
    OBVIOUS
<1>9. Sum(S) + Excess(S) = ((Categorised(r) + r.noCategory) + SumAllocs(transferred)) + r.unreconciled
    BY <1>4, <1>5, <1>7
<1>10. Sum(S) = Categorised(r) + r.noCategory + SumAllocs(transferred) + r.unreconciled - Excess(S)
    BY <1>4, <1>5, <1>7, <1>8, <1>9
<1>11. QED BY <1>6, <1>10 DEF S, r, transferred

(* GET /reports accounts for everything that it selects, transfers, splits *)
(* and over-allocated transactions included, for every selection.          *)
THEOREM ReportsAccountForAll == Spec => []ReportAccountsForAll
<1>1. Typed => ReportAccountsForAll
    BY Accounted DEF ReportAccountsForAll
<1>2. QED BY <1>1, FiguresTyped, PTL

-----------------------------------------------------------------------------
LEMMA SpanOfDays == \A e \in Days : e \in FirstDay..LastDay
<1>1. Days \in SUBSET Int /\ IsFiniteSet(Days)
    BY ReportsAssumption, FiniteTables
<1>2. SUFFICES ASSUME NEW e \in Days PROVE e \in FirstDay..LastDay
    OBVIOUS
<1>3. (\E m \in Days : \A x \in Days : m <= x) /\ (\E m \in Days : \A x \in Days : x <= m)
    BY <1>1, Extremes
<1>4. FirstDay \in Days /\ FirstDay <= e
    BY <1>3 DEF FirstDay
<1>5. LastDay \in Days /\ e <= LastDay
    BY <1>3 DEF LastDay
<1>6. QED BY <1>1, <1>4, <1>5

(* The dashboard's figures of an account are its report's; added up, those *)
(* of the report on all of them.                                           *)
LEMMA DashboardAgrees ==
    ASSUME Typed, AtHome, NEW c \in Currencies, NEW from \in Days, NEW to \in Days, NEW d \in Directions
    PROVE  LET board == Dashboard(c, from, to)
               ReportOf(acc) == Report([currency |-> c, account |-> acc, from |-> from, to |-> to,
                                        direction |-> Everything])
           IN  /\ SumOf(DOMAIN board, LAMBDA acc : board[acc][d]) = ReportOf(Everything)[d]
               /\ \A acc \in DOMAIN board : board[acc][d] = ReportOf(acc)[d]
<1> DEFINE board == Dashboard(c, from, to)
           Of(acc) == [currency |-> c, account |-> acc, from |-> from, to |-> to, direction |-> Everything]
           ReportOf(acc) == Report(Of(acc))
           On(acc) == {t \in Txn : transactions[t].account = acc /\ transactions[t].day \in from..to}
           M == {t \in Matching(Of(Everything)) : transactions[t].direction = d /\ ~HasTransfer(t)}
           g == [t \in M |-> transactions[t].account]
           sums == [acc \in DashboardAccounts(c) |-> board[acc][d]]
<1>1. /\ DOMAIN board = DashboardAccounts(c)
      /\ \A acc \in DashboardAccounts(c) : board[acc][d] = Moved(On(acc), d)
    BY DEF Dashboard
<1>2. \A acc : ReportOf(acc)[d] = Moved(Matching(Of(acc)), d)
    <2>1. CASE d = "in"
        BY <2>1 DEF Report
    <2>2. CASE d = "out"
        BY <2>2 DEF Report
    <2>3. QED BY <2>1, <2>2 DEF Directions
<1>3. ASSUME NEW acc \in DashboardAccounts(c)
      PROVE  Matching(Of(acc)) = On(acc)
    <2>1. acc \in Accounts /\ currencyOf[acc] = c /\ acc # Everything
        BY ReportsAssumption DEF DashboardAccounts
    <2>2. \A t \in Txn : transactions[t].account = acc => transactions[t].currency = c
        BY <2>1 DEF AtHome
    <2>3. QED BY <2>1, <2>2 DEF Matching
<1>4. \A acc \in DOMAIN board : board[acc][d] = ReportOf(acc)[d]
    <2> HIDE DEF board, On, Of
    <2> QED BY <1>1, <1>2, <1>3
<1>5. \A acc \in DashboardAccounts(c) : sums[acc] = SumFunctionOnSet(Amounts, Part(M, g, acc))
    <2> SUFFICES ASSUME NEW acc \in DashboardAccounts(c)
                 PROVE  sums[acc] = SumFunctionOnSet(Amounts, Part(M, g, acc))
        OBVIOUS
    <2> DEFINE T == {t \in On(acc) : transactions[t].direction = d /\ ~HasTransfer(t)}
    <2>1. acc \in Accounts /\ currencyOf[acc] = c
        BY DEF DashboardAccounts
    <2>2. \A t \in Txn : transactions[t].account = acc => transactions[t].currency = c
        BY <2>1 DEF AtHome
    <2>3. Part(M, g, acc) = T
        BY <2>2 DEF Part, Matching
    <2>4. T \subseteq Txn
        OBVIOUS
    <2>5. sums[acc] = Sum(T)
        BY <1>1 DEF Moved
    <2> HIDE DEF T, sums
    <2>6. Sum(T) = SumFunctionOnSet(Amounts, T)
        BY <2>4, TransactionSums
    <2>7. QED BY <2>3, <2>5, <2>6
<1>6. \A t \in M : g[t] \in DashboardAccounts(c)
    <2> SUFFICES ASSUME NEW t \in M PROVE transactions[t].account \in DashboardAccounts(c)
        OBVIOUS
    <2>1. t \in Txn /\ transactions[t].currency = c
        BY DEF Matching
    <2>2. QED BY <2>1, TransactionType DEF AtHome, DashboardAccounts
<1>7. /\ IsFiniteSet(M) /\ \A t \in M : Amounts[t] \in Int
      /\ Sum(M) = SumFunctionOnSet(Amounts, M)
    <2>1. M \subseteq Txn
        BY DEF Matching
    <2> HIDE DEF M
    <2>2. QED BY <2>1, TransactionSums
<1>8. IsFiniteSet(DashboardAccounts(c))
    <2>1. DashboardAccounts(c) \subseteq Accounts
        BY DEF DashboardAccounts
    <2>2. QED BY <2>1, FiniteTables, FS_Subset
<1>9. ReportOf(Everything)[d] = Sum(M)
    BY <1>2 DEF Moved
<1>10. SumOf(DOMAIN board, LAMBDA acc : board[acc][d]) = SumFunctionOnSet(sums, DashboardAccounts(c))
    BY <1>1 DEF SumOf
<1>11. SumFunctionOnSet(Amounts, M) = SumFunctionOnSet(sums, DashboardAccounts(c))
    <2> HIDE DEF M, g, sums
    <2> QED BY <1>5, <1>6, <1>7, <1>8, SumByParts
<1>12. SumOf(DOMAIN board, LAMBDA acc : board[acc][d]) = ReportOf(Everything)[d]
    BY <1>7, <1>9, <1>10, <1>11
<1>13. QED BY <1>4, <1>12

(* What the account summary calls reconciled, the reports of all time file. *)
LEMMA SummaryAgrees ==
    ASSUME Typed, NEW acc \in Accounts, NEW d \in Directions
    PROVE  AccountSummary(acc)[d] =
               SumOf(Currencies, LAMBDA c :
                   LET r == Report([currency |-> c, account |-> acc, from |-> FirstDay, to |-> LastDay,
                                    direction |-> d])
                   IN  Categorised(r) + r.noCategory)
<1> DEFINE Of(c) == [currency |-> c, account |-> acc, from |-> FirstDay, to |-> LastDay, direction |-> d]
           sums == [c \in Currencies |-> Categorised(Report(Of(c))) + Report(Of(c)).noCategory]
           A == {a \in DOMAIN allocations :
                     LET x == transactions[allocations[a].txn]
                     IN  /\ x.account = acc /\ x.direction = d
                         /\ allocations[a].target # Transfer}
           g == [a \in A |-> transactions[allocations[a].txn].currency]
<1>1. AccountSummary(acc)[d] = SumAllocs(A)
    BY DEF AccountSummary
<1>2. \A a \in A : allocations[a].txn \in Txn /\ g[a] \in Currencies
    BY AllocationType, TransactionType
<1>3. \A c \in Currencies : sums[c] = SumFunctionOnSet(Shares, Part(A, g, c))
    <2> SUFFICES ASSUME NEW c \in Currencies PROVE sums[c] = SumFunctionOnSet(Shares, Part(A, g, c))
        OBVIOUS
    <2> DEFINE T == {a \in AllocationsAmong(Matching(Of(c))) : allocations[a].target # Transfer}
    <2>1. acc # Everything /\ d # Everything
        BY ReportsAssumption
    <2>2. \A t \in Txn : t \in Matching(Of(c)) <=>
              /\ transactions[t].currency = c /\ transactions[t].account = acc /\ transactions[t].direction = d
        <3>1. \A t \in Txn : transactions[t].day \in FirstDay..LastDay
            BY TransactionType, SpanOfDays
        <3>2. QED BY <2>1, <3>1 DEF Matching
    <2>3. Part(A, g, c) = T
        <3>1. \A a \in DOMAIN allocations : allocations[a].txn \in Txn
            BY AllocationType
        <3> HIDE DEF Of
        <3>2. QED BY <2>2, <3>1 DEF Part, AllocationsAmong
    <2>4. T \subseteq DOMAIN allocations
        BY DEF AllocationsAmong
    <2>5. sums[c] = SumAllocs(T)
        <3> HIDE DEF Of
        <3> QED BY ReportFiles
    <2> HIDE DEF T, sums
    <2>6. SumAllocs(T) = SumFunctionOnSet(Shares, T)
        BY <2>4, AllocationSums
    <2>7. QED BY <2>3, <2>5, <2>6
<1>4. /\ IsFiniteSet(A) /\ (\A a \in A : Shares[a] \in Int) /\ SumAllocs(A) = SumFunctionOnSet(Shares, A)
    <2>1. A \subseteq DOMAIN allocations
        OBVIOUS
    <2> HIDE DEF A
    <2>2. QED BY <2>1, AllocationSums
<1>5. SumFunctionOnSet(Shares, A) = SumFunctionOnSet(sums, Currencies)
    <2> HIDE DEF A, g, sums
    <2> QED BY <1>2, <1>3, <1>4, FiniteTables, SumByParts
<1>6. QED BY <1>1, <1>4, <1>5 DEF SumOf

(* The dashboard, the reports and the account summary, three queries of    *)
(* their own, say the same of any period.                                  *)
THEOREM ViewsAlwaysAgree == Spec => []ViewsAgree
<1>1. Typed => ViewsAgree
    BY DashboardAgrees, SummaryAgrees DEF ViewsAgree
<1>2. QED BY <1>1, FiguresTyped, PTL

-----------------------------------------------------------------------------
(* The k-th member of a set in order is the one that k - 1 others precede. *)
LEMMA RankUnique ==
    ASSUME NEW S, IsFiniteSet(S), NEW before, IsOrder(S, before), NEW k \in 1..Cardinality(S),
           NEW x \in S, Cardinality(Below(S, before, x)) = k - 1
    PROVE  Sorted(S, before)[k] = x
<1> DEFINE y == Sorted(S, before)[k]
<1>1. y \in S /\ Cardinality(Below(S, before, y)) = k - 1
    BY SortedSet DEF Bijection, Injection
<1> HIDE DEF y
<1>2. <<x, y>> \notin before /\ <<y, x>> \notin before
    <2>1. ~(k - 1 < k - 1)
        BY SortedSet
    <2>2. QED BY <1>1, <2>1, RankMonotonic
<1>3. x = y
    BY <1>1, <1>2 DEF IsOrder
<1>4. QED BY <1>3 DEF y

(* The lines of the first moment come first. *)
LEMMA LeadingLength ==
    ASSUME NEW n \in Nat \ {0}, NEW when \in [1..n -> Int],
           \A i, j \in 1..n : i < j => when[i] <= when[j],
           NEW lead \in SUBSET (1..n), \A i \in 1..n : i \in lead <=> when[i] = when[1],
           NEW size, size = Cardinality(lead)
    PROVE  size \in 1..n /\ \A i \in 1..n : when[i] = when[1] <=> i <= size
<1>1. n \in Nat \ {0}
    OBVIOUS
<1>2. IsFiniteSet(lead) /\ lead \in SUBSET Int /\ 1 \in lead
    <2>1. IsFiniteSet(1..n)
        BY FS_Interval
    <2>2. lead \subseteq 1..n /\ 1 \in lead
        BY <1>1
    <2>3. lead \in SUBSET Int
        BY <1>1, <2>2
    <2>4. QED BY <2>1, <2>2, <2>3, FS_Subset
<1>3. PICK c \in lead : \A x \in lead : x <= c
    BY <1>2, Extremes
<1>4. \A i \in 1..n : i <= c => i \in lead
    <2> SUFFICES ASSUME NEW i \in 1..n, i <= c PROVE when[i] = when[1]
        OBVIOUS
    <2>1. when[i] <= when[c] /\ when[1] <= when[i] /\ when[c] = when[1] /\ when[i] \in Int /\ when[1] \in Int
        <3>1. c \in 1..n /\ 1 \in 1..n /\ when[c] = when[1]
            BY <1>1
        <3>2. i = c \/ i < c
            BY <3>1
        <3>3. i = 1 \/ 1 < i
            BY <3>1
        <3>4. QED BY <3>1, <3>2, <3>3
    <2>2. QED BY <2>1
<1>5. lead = 1..c /\ c \in 1..n
    <2>1. lead \subseteq 1..n
        OBVIOUS
    <2>2. c \in 1..n
        BY <2>1
    <2>3. \A x \in lead : x \in 1..c
        BY <1>1, <1>3, <2>1, <2>2
    <2>4. \A x \in 1..c : x \in 1..n /\ x <= c
        BY <1>1, <2>2
    <2>5. QED BY <1>4, <2>2, <2>3, <2>4
<1>6. Cardinality(1..c) = c
    <2>1. Cardinality(1..c) = IF 1 > c THEN 0 ELSE c - 1 + 1
        BY <1>1, <1>5, FS_Interval
    <2>2. c \in Int /\ 1 <= c
        BY <1>1, <1>5
    <2>3. QED BY <2>1, <2>2
<1>7. size = c
    BY <1>5, <1>6
<1>8. \A i \in 1..n : when[i] = when[1] <=> i \in lead
    OBVIOUS
<1>9. \A i \in 1..n : i \in lead <=> i <= c
    BY <1>1, <1>5
<1>10. QED BY <1>5, <1>7, <1>8, <1>9

FirstMoment(lines, size) ==
    /\ \A i \in 1..Len(lines) : lines[i].time = lines[1].time <=> i <= size
    /\ \A i \in 1..Len(lines) : lines[1].time <= lines[i].time

(* M-Pesa lists the newest first; sorted, the lines of the first moment    *)
(* are still in the order of the list.                                     *)
LEMMA AscendingLead ==
    ASSUME NEW Time \in SUBSET Int, NEW Text, NEW lines \in Seq(Line(Time, Text)), lines # <<>>,
           NEW size \in 1..Len(lines),
           FirstMoment(lines, size), NEW rows, rows = Ascending(Reverse(lines))
    PROVE  /\ rows \in Seq(Line(Time, Text)) /\ Len(rows) = Len(lines)
           /\ \A k \in 1..size : rows[k] = lines[size + 1 - k]
           /\ Cardinality(LeadingTie(rows)) = size
<1> DEFINE n == Len(lines)
           list == Reverse(lines)
           before == Earlier(list)
           order == Sorted(1..n, before)
<1>0. rows = Ascending(list)
    OBVIOUS
<1>1. n \in Nat \ {0} /\ n = Len(lines)
    OBVIOUS
<1>2. /\ list \in Seq(Line(Time, Text)) /\ Len(list) = n /\ DOMAIN list = 1..n
      /\ \A k \in 1..n : list[k] = lines[(n - k) + 1]
    BY ReverseRows
<1>3. rows \in Seq(Line(Time, Text)) /\ Len(rows) = n
    <2> HIDE DEF list
    <2> QED BY <1>0, <1>2, AscendingRows
<1>4. IsOrder(1..n, before)
    <2> HIDE DEF list
    <2> QED BY <1>2, EarlierIsOrder
<1>5. IsFiniteSet(1..n) /\ Cardinality(1..n) = n
    BY Positions
<1>6. rows = [k \in 1..n |-> list[order[k]]]
    <2> HIDE DEF list
    <2> QED BY <1>0, <1>2 DEF Ascending
<1>7. order \in Bijection(1..n, 1..n)
    <2> HIDE DEF before
    <2> QED BY <1>4, <1>5, SortedSet
<1>8. \A i, j \in 1..n : <<i, j>> \in before <=>
         \/ list[i].time < list[j].time
         \/ list[i].time = list[j].time /\ i < j
    <2> HIDE DEF list
    <2> QED BY <1>2 DEF Earlier
<1> DEFINE when(k) == list[k].time
<1>9. \A k \in 1..n : /\ when(k) \in Int /\ lines[1].time \in Int /\ lines[1].time <= when(k)
                      /\ when(k) = lines[1].time <=> n - size + 1 <= k
    <2> SUFFICES ASSUME NEW k \in 1..n
                 PROVE  /\ when(k) \in Int /\ lines[1].time \in Int /\ lines[1].time <= when(k)
                        /\ when(k) = lines[1].time <=> n - size + 1 <= k
        OBVIOUS
    <2>1. (n - k) + 1 \in 1..n /\ list[k] = lines[(n - k) + 1] /\ 1 \in 1..n
        BY <1>1, <1>2
    <2>2. lines[1] \in Line(Time, Text) /\ list[k] \in Line(Time, Text)
        BY <1>2, <2>1
    <2>3. lines[1].time \in Int /\ when(k) \in Int
        BY <2>2 DEF Line
    <2>4. lines[1].time <= when(k) /\ (when(k) = lines[1].time <=> (n - k) + 1 <= size)
        BY <1>1, <2>1 DEF FirstMoment
    <2>5. (n - k) + 1 <= size <=> n - size + 1 <= k
        BY <1>1
    <2>6. QED BY <2>3, <2>4, <2>5
<1> HIDE DEF list, n, before, order
<1>10. ASSUME NEW k \in 1..size PROVE order[k] = n - size + k
    <2>1. n - size + k \in 1..n /\ k \in 1..n /\ size \in 1..n
        BY <1>1
    <2>2. Below(1..n, before, n - size + k) = n - size + 1..n - size + k - 1
        <3>1. ASSUME NEW y \in 1..n
              PROVE  <<y, n - size + k>> \in before <=> (n - size + 1 <= y /\ y < n - size + k)
            <4>1. when(n - size + k) = lines[1].time
                <5>1. n - size + 1 <= n - size + k
                    BY <1>1
                <5>2. QED BY <1>9, <2>1, <5>1
            <4>2. <<y, n - size + k>> \in before <=> (when(y) = lines[1].time /\ y < n - size + k)
                <5>1. ~(when(y) < lines[1].time)
                    BY <1>9
                <5>2. QED BY <1>8, <2>1, <4>1, <5>1
            <4>3. QED BY <1>9, <4>2
        <3>2. QED BY <1>1, <2>1, <3>1 DEF Below
    <2>3. Cardinality(n - size + 1..n - size + k - 1) = k - 1
        <3>1. n - size + 1 \in Int /\ n - size + k - 1 \in Int
            BY <1>1
        <3>2. Cardinality(n - size + 1..n - size + k - 1) =
                 IF n - size + 1 > n - size + k - 1 THEN 0 ELSE (n - size + k - 1) - (n - size + 1) + 1
            BY <3>1, FS_Interval
        <3>3. QED BY <1>1, <2>1, <3>2
    <2>4. Cardinality(Below(1..n, before, n - size + k)) = k - 1
        BY <2>2, <2>3
    <2>5. k \in 1..Cardinality(1..n)
        BY <1>5, <2>1
    <2>6. Sorted(1..n, before)[k] = n - size + k
        <3> DEFINE S == 1..n
                   x == n - size + k
        <3>1. /\ IsFiniteSet(S) /\ IsOrder(S, before) /\ k \in 1..Cardinality(S) /\ x \in S
              /\ Cardinality(Below(S, before, x)) = k - 1
            BY <1>4, <1>5, <2>1, <2>4, <2>5
        <3> HIDE DEF S, x
        <3>2. Sorted(S, before)[k] = x
            BY <3>1, RankUnique
        <3>3. QED BY <3>2 DEF S, x
    <2>7. QED BY <2>6 DEF order
<1>11. \A k \in 1..size : rows[k] = lines[size + 1 - k]
    <2> SUFFICES ASSUME NEW k \in 1..size PROVE rows[k] = lines[size + 1 - k]
        OBVIOUS
    <2>1. k \in 1..n /\ n - size + k \in 1..n /\ (n - (n - size + k)) + 1 = size + 1 - k
        BY <1>1
    <2>2. rows[k] = list[n - size + k]
        BY <1>6, <1>10, <2>1
    <2>3. list[n - size + k] = lines[(n - (n - size + k)) + 1]
        BY <1>2, <2>1
    <2>4. QED BY <2>1, <2>2, <2>3
<1>12. Cardinality(LeadingTie(rows)) = size
    <2> DEFINE tie == LeadingTie(rows)
               last == n - size + 1..n
               h == [i \in tie |-> order[i]]
    <2>1. \A i \in 1..n : order[i] \in 1..n /\ rows[i] = list[order[i]]
        BY <1>6, <1>7 DEF Bijection, Injection
    <2>2. rows[1].time = lines[1].time
        <3>1. 1 \in 1..size /\ 1 \in 1..n /\ n - size + 1 \in 1..n
            BY <1>1
        <3>2. order[1] = n - size + 1
            BY <1>10, <3>1
        <3>3. when(n - size + 1) = lines[1].time
            BY <1>9, <3>1
        <3>4. QED BY <2>1, <3>1, <3>2, <3>3
    <2>3. tie = {i \in 1..n : when(order[i]) = lines[1].time}
        <3>1. DOMAIN rows = 1..n
            BY <1>3
        <3>2. QED BY <2>1, <2>2, <3>1 DEF LeadingTie
    <2>4. \A i \in tie : order[i] \in last
        BY <1>1, <1>9, <2>1, <2>3
    <2>5. \A j \in last : j \in 1..n /\ when(j) = lines[1].time
        BY <1>1, <1>9
    <2>6. h \in Bijection(tie, last)
        <3>1. \A i, j \in 1..n : order[i] = order[j] => i = j
            BY <1>7 DEF Bijection, Injection, IsInjective
        <3>2. tie \subseteq 1..n
            BY <2>3
        <3>3. h \in Injection(tie, last)
            <4> HIDE DEF tie, last
            <4> QED BY <2>4, <3>1, <3>2 DEF Injection, IsInjective
        <3>4. \A j \in last : \E i \in tie : h[i] = j
            <4> SUFFICES ASSUME NEW j \in last PROVE \E i \in tie : h[i] = j
                OBVIOUS
            <4>1. PICK i \in 1..n : order[i] = j
                BY <1>7, <2>5 DEF Bijection, Surjection
            <4>2. i \in tie
                BY <2>3, <2>5, <4>1
            <4>3. QED BY <4>1, <4>2
        <3>5. h \in Surjection(tie, last)
            <4> HIDE DEF tie, last
            <4> QED BY <2>4, <3>4 DEF Surjection
        <3>6. QED BY <3>3, <3>5 DEF Bijection
    <2>7. IsFiniteSet(last) /\ Cardinality(last) = size
        <3>1. n - size + 1 \in Int /\ n \in Int
            BY <1>1
        <3>2. /\ IsFiniteSet(last)
              /\ Cardinality(last) = IF n - size + 1 > n THEN 0 ELSE n - (n - size + 1) + 1
            BY <3>1, FS_Interval
        <3>3. QED BY <1>1, <3>2
    <2>8. IsFiniteSet(tie)
        BY <1>5, <2>3, FS_Subset
    <2> HIDE DEF tie, last, h
    <2>9. Cardinality(tie) = Cardinality(last)
        <3>1. ExistsBijection(tie, last)
            BY <2>6 DEF ExistsBijection
        <3>2. QED BY <2>8, <3>1, FS_Bijection
    <2>10. QED BY <2>7, <2>9 DEF tie
<1>13. QED BY <1>3, <1>11, <1>12 DEF n, list

-----------------------------------------------------------------------------
LEMMA OrdersOfPositions ==
    ASSUME NEW n \in Nat
    PROVE  SetToSeqs(1..n) = {p \in [1..n -> 1..n] : \A i, j \in 1..n : i # j => p[i] # p[j]}
<1>1. Cardinality(1..n) = n
    <2>1. Cardinality(1..n) = IF 1 > n THEN 0 ELSE n - 1 + 1
        BY FS_Interval
    <2>2. QED BY <2>1
<1>2. QED BY <1>1 DEF SetToSeqs

LEMMA OrdersAreFinite ==
    ASSUME NEW n \in Nat
    PROVE  IsFiniteSet([1..n -> 1..n])
<1> DEFINE S == [1..n -> 1..n]
           Pairs == (1..n) \X (1..n)
           h == [p \in S |-> {q \in Pairs : q[2] = p[q[1]]}]
<1>1. IsFiniteSet(SUBSET Pairs)
    <2>1. IsFiniteSet(1..n)
        BY FS_Interval
    <2>2. QED BY <2>1, FS_Product, FS_SUBSET
<1>2. \A p, q \in S : h[p] = h[q] => p = q
    <2> SUFFICES ASSUME NEW p \in S, NEW q \in S, h[p] = h[q] PROVE p = q
        OBVIOUS
    <2>1. ASSUME NEW i \in 1..n PROVE p[i] = q[i]
        <3>1. <<i, p[i]>> \in h[p]
            OBVIOUS
        <3>2. <<i, p[i]>> \in h[q]
            BY <3>1
        <3>3. QED BY <3>2
    <2>2. QED BY <2>1
<1>3. h \in Injection(S, SUBSET Pairs)
    <2>1. \A p \in S : h[p] \in SUBSET Pairs
        OBVIOUS
    <2>2. DOMAIN h = S /\ h = [p \in S |-> h[p]]
        OBVIOUS
    <2> HIDE DEF h, S, Pairs
    <2>3. QED BY <1>2, <2>1, <2>2 DEF Injection, IsInjective
<1> HIDE DEF h, S, Pairs
<1>4. IsFiniteSet(S)
    BY <1>1, <1>3, FS_Injection
<1>5. QED BY <1>4 DEF S

(* A cluster that only one order fits, its own, is found from its reverse. *)
LEMMA OnlyOrder ==
    ASSUME NEW X, NEW rows \in Seq(X), rows # <<>>, SelfConsistent(rows), Cardinality(Fitting(rows)) = 1,
           NEW list, list = [k \in 1..Len(rows) |-> rows[Len(rows) + 1 - k]]
    PROVE  SelfConsistentOrder(list) = rows
<1> DEFINE n == Len(rows)
           self == [i \in 1..n |-> i]
           turned == [i \in 1..n |-> n + 1 - i]
           Orders_ == {p \in [1..n -> 1..n] : \A i, j \in 1..n : i # j => p[i] # p[j]}
           In(p) == [i \in 1..n |-> rows[p[i]]]
           Turned(p) == [i \in 1..n |-> n + 1 - p[i]]
<1>1. n \in Nat \ {0} /\ DOMAIN rows = 1..n /\ DOMAIN list = 1..n
    OBVIOUS
<1>2. SetToSeqs(DOMAIN rows) = Orders_ /\ SetToSeqs(DOMAIN list) = Orders_
    BY <1>1, OrdersOfPositions
<1>3. Fitting(rows) = {p \in Orders_ : SelfConsistent(In(p))}
    <2>1. Fitting(rows) = {p \in SetToSeqs(DOMAIN rows) : SelfConsistent([i \in DOMAIN rows |-> rows[p[i]]])}
        BY DEF Fitting
    <2> HIDE DEF Orders_
    <2>2. QED BY <1>1, <1>2, <2>1
<1>4. ASSUME NEW p \in Orders_
      PROVE  Turned(p) \in Orders_ /\ [i \in 1..n |-> list[p[i]]] = In(Turned(p))
    <2>1. \A i \in 1..n : p[i] \in 1..n /\ n + 1 - p[i] \in 1..n
        <3>1. \A i \in 1..n : p[i] \in 1..n
            OBVIOUS
        <3>2. \A a \in 1..n : n + 1 - a \in 1..n
            BY <1>1
        <3>3. QED BY <3>1, <3>2
    <2>2. \A i, j \in 1..n : i # j => n + 1 - p[i] # n + 1 - p[j]
        <3>1. \A i, j \in 1..n : i # j => p[i] # p[j]
            OBVIOUS
        <3>2. \A a, b \in 1..n : n + 1 - a = n + 1 - b => a = b
            BY <1>1
        <3>3. QED BY <2>1, <3>1, <3>2
    <2>3. Turned(p) \in Orders_
        BY <2>1, <2>2
    <2>4. \A i \in 1..n : list[p[i]] = rows[n + 1 - p[i]]
        BY <2>1
    <2>5. QED BY <2>3, <2>4
<1>5. Fitting(list) = {p \in Orders_ : SelfConsistent(In(Turned(p)))}
    <2>1. Fitting(list) = {p \in SetToSeqs(DOMAIN list) : SelfConsistent([i \in DOMAIN list |-> list[p[i]]])}
        BY DEF Fitting
    <2> HIDE DEF Orders_, In, Turned
    <2>2. \A p \in Orders_ : [i \in 1..n |-> list[p[i]]] = In(Turned(p))
        BY <1>4
    <2>3. QED BY <1>1, <1>2, <2>1, <2>2
<1>6. self \in Orders_ /\ In(self) = rows
    <2>1. In(self) = rows
        BY <1>1
    <2>2. QED BY <1>1, <2>1
<1>7. turned \in Orders_ /\ Turned(turned) = self
    <2>1. \A i \in 1..n : n + 1 - i \in 1..n /\ n + 1 - (n + 1 - i) = i
        BY <1>1
    <2>2. \A i, j \in 1..n : i # j => n + 1 - i # n + 1 - j
        BY <1>1
    <2>3. QED BY <2>1, <2>2
<1>8. \A p \in Orders_ : Turned(p) = self => p = turned
    <2> SUFFICES ASSUME NEW p \in Orders_, Turned(p) = self PROVE p = turned
        OBVIOUS
    <2>1. \A i \in 1..n : p[i] \in 1..n /\ n + 1 - p[i] = i
        <3>1. \A i \in 1..n : Turned(p)[i] = n + 1 - p[i] /\ self[i] = i
            OBVIOUS
        <3> HIDE DEF Turned, self
        <3>2. QED BY <3>1
    <2>2. \A i \in 1..n : p[i] = n + 1 - i
        <3>1. \A a, i \in 1..n : n + 1 - a = i => a = n + 1 - i
            BY <1>1
        <3>2. QED BY <2>1, <3>1
    <2>3. p = [i \in 1..n |-> p[i]]
        OBVIOUS
    <2>4. QED BY <2>2, <2>3
<1> HIDE DEF Orders_, In, Turned, self, turned
<1>9. Fitting(rows) = {self}
    <2>1. self \in Fitting(rows)
        BY <1>3, <1>6
    <2>2. IsFiniteSet(Fitting(rows))
        <3>1. Fitting(rows) \subseteq [1..n -> 1..n]
            BY <1>3 DEF Orders_
        <3>2. QED BY <1>1, <3>1, OrdersAreFinite, FS_Subset
    <2>3. \E x : Fitting(rows) = {x}
        BY <2>2, FS_Singleton
    <2>4. QED BY <2>1, <2>3
<1>10. Fitting(list) = {turned}
    <2>1. \A p \in Orders_ : SelfConsistent(In(Turned(p))) <=> Turned(p) = self
        BY <1>3, <1>4, <1>9
    <2>2. QED BY <1>5, <1>7, <1>8, <2>1
<1>11. Cardinality(Fitting(list)) = 1
    BY <1>10, FS_Singleton
<1>12. SelfConsistentOrder(list) = [i \in 1..n |-> list[turned[i]]]
    <2> DEFINE p == CHOOSE q \in Fitting(list) : TRUE
    <2>1. SelfConsistentOrder(list) = [i \in 1..n |-> list[p[i]]]
        BY <1>1, <1>11 DEF SelfConsistentOrder
    <2>2. p = turned
        BY <1>10
    <2> HIDE DEF p
    <2>3. QED BY <2>1, <2>2
<1>13. QED BY <1>4, <1>6, <1>7, <1>12

-----------------------------------------------------------------------------
LEMMA SortedLead ==
    ASSUME NEW lines \in Seq(TheLine), lines # <<>>, NEW size \in 1..Len(lines), FirstMoment(lines, size),
           NEW rows, rows = Ascending(Reverse(lines))
    PROVE  /\ rows \in Seq(TheLine) /\ Len(rows) = Len(lines)
           /\ \A k \in 1..size : rows[k] = lines[size + 1 - k]
           /\ Cardinality(LeadingTie(rows)) = size
<1>1. lines \in Seq(Line(1..MaxTime, Seq(STRING))) /\ 1..MaxTime \in SUBSET Int
    BY DEF TheLine
<1>2. /\ rows \in Seq(Line(1..MaxTime, Seq(STRING))) /\ Len(rows) = Len(lines)
      /\ \A k \in 1..size : rows[k] = lines[size + 1 - k]
      /\ Cardinality(LeadingTie(rows)) = size
    BY <1>1, AscendingLead
<1>3. QED BY <1>2 DEF TheLine

(* The first row, once the first moment's rows are in their order. *)
LEMMA ResolvedLead ==
    ASSUME NEW X, NEW rows \in Seq(X), NEW lead \in Seq(X), lead # <<>>, Len(lead) <= Len(rows),
           Cardinality(LeadingTie(rows)) = Len(lead),
           \A k \in 1..Len(lead) : rows[k] = lead[Len(lead) + 1 - k],
           SelfConsistent(lead), Cardinality(Fitting(lead)) = 1
    PROVE  ResolveLeadingTie(rows) # <<>> /\ ResolveLeadingTie(rows)[1] = lead[1]
<1> DEFINE n == Len(lead)
           list == SubSeq(rows, 1, n)
           rest == SubSeq(rows, n + 1, Len(rows))
<1>1. n \in Nat \ {0} /\ n \in 0..Len(rows) /\ 1 \in 1..n
    OBVIOUS
<1>2. CASE n = 1
    <2>1. ResolveLeadingTie(rows) = rows
        BY <1>2 DEF ResolveLeadingTie
    <2>2. rows[1] = lead[1] /\ rows # <<>>
        BY <1>1, <1>2
    <2>3. QED BY <2>1, <2>2
<1>3. CASE n # 1
    <2>1. /\ list \in Seq(X) /\ Len(list) = n /\ \A i \in 1..n : list[i] = rows[i]
          /\ rest \in Seq(X)
        BY <1>1, SplitRows
    <2>2. list = [k \in 1..n |-> lead[n + 1 - k]]
        <3> HIDE DEF list
        <3>1. list = [k \in 1..n |-> list[k]]
            BY <2>1
        <3>2. QED BY <2>1, <3>1
    <2>3. SelfConsistentOrder(list) = lead
        <3> HIDE DEF list
        <3> QED BY <2>2, OnlyOrder
    <2>4. ResolveLeadingTie(rows) = SelfConsistentOrder(list) \o rest
        <3>1. Cardinality(LeadingTie(rows)) = n /\ ~(n < 2)
            BY <1>1, <1>3
        <3>2. ResolveLeadingTie(rows) = IF n < 2 THEN rows ELSE SelfConsistentOrder(list) \o rest
            BY <3>1 DEF ResolveLeadingTie
        <3> HIDE DEF list, rest, n
        <3>3. QED BY <3>1, <3>2
    <2> HIDE DEF list, rest
    <2>5. ResolveLeadingTie(rows) = lead \o rest
        BY <2>3, <2>4
    <2>6. (lead \o rest)[1] = lead[1] /\ Len(lead \o rest) = n + Len(rest) /\ Len(rest) \in Nat
        BY <1>1, <2>1
    <2>7. lead \o rest # <<>>
        BY <1>1, <2>6
    <2>8. QED BY <2>5, <2>6, <2>7
<1>4. QED BY <1>2, <1>3

LEMMA LineDelta ==
    ASSUME BookOpen, NEW i \in 1..Len(bank)
    PROVE  Delta(LineOf(i)) = bank[i].delta
<1>1. /\ LineOf(i).amount = Abs(bank[i].delta)
      /\ LineOf(i).direction = IF bank[i].delta > 0 THEN "in" ELSE "out"
    BY LineType
<1>2. bank[i].delta \in Int /\ bank[i].delta # 0
    BY BookType
<1>3. \A y \in Int : -(-y) = y
    OBVIOUS
<1>4. QED BY <1>1, <1>2, <1>3 DEF Delta, Abs

(* The lines of one moment, as a statement of first..last begins. *)
Leading(first, last) ==
    [n \in 1..Cardinality({i \in first..last : bank[i].time = bank[first].time}) |-> LineOf(first + n - 1)]

LEMMA LeadingType ==
    ASSUME BookOpen, NEW first \in 1..Len(bank), NEW last \in first..Len(bank), NEW lost, NEW anchor \in BOOLEAN,
           NEW furniture \in Furniture
    PROVE  LET lines == StatementOf(first, last, lost, anchor, furniture).lines
               lead == Leading(first, last)
           IN  /\ lead \in Seq(TheLine) /\ lead # <<>> /\ Len(lead) \in 1..Len(lines)
               /\ \A n \in 1..Len(lead) : first + n - 1 \in first..last /\ lead[n] = LineOf(first + n - 1)
               /\ FirstMoment(lines, Len(lead))
<1> DEFINE lines == StatementOf(first, last, lost, anchor, furniture).lines
           n == last - first + 1
           when == [k \in 1..n |-> bank[first + k - 1].time]
           tied == {i \in first..last : bank[i].time = bank[first].time}
           ties == {k \in 1..n : when[k] = when[1]}
           shift == [i \in tied |-> i - first + 1]
           size == Cardinality(tied)
<1>1. n \in Nat \ {0} /\ \A k \in 1..n : first + k - 1 \in first..last /\ first + k - 1 \in 1..Len(bank)
    BY BookType
<1>2. lines \in Seq(TheLine) /\ Len(lines) = n /\ \A k \in 1..n : lines[k] = LineOf(first + k - 1)
    BY StatementType
<1>3. \A k \in 1..n : when[k] \in Int /\ lines[k].time = when[k]
    <2> SUFFICES ASSUME NEW k \in 1..n PROVE when[k] \in Int /\ lines[k].time = when[k]
        OBVIOUS
    <2>1. first + k - 1 \in 1..Len(bank)
        BY <1>1
    <2>2. bank[first + k - 1].time \in 1..MaxTime /\ LineOf(first + k - 1).time = bank[first + k - 1].time
        BY <2>1, BookType, LineType
    <2> HIDE DEF lines
    <2>3. QED BY <1>2, <2>2
<1>4. \A i, j \in 1..n : i < j => when[i] <= when[j]
    <2> SUFFICES ASSUME NEW i \in 1..n, NEW j \in 1..n, i < j PROVE when[i] <= when[j]
        OBVIOUS
    <2>1. first + i - 1 \in 1..Len(bank) /\ first + j - 1 \in 1..Len(bank) /\ first + i - 1 < first + j - 1
        BY <1>1
    <2>2. QED BY <2>1, BookType
<1>5. shift \in Bijection(tied, ties)
    <2>1. \A i \in first..last : i - first + 1 \in 1..n /\ first + (i - first + 1) - 1 = i
        OBVIOUS
    <2>2. when[1] = bank[first].time
        <3>1. 1 \in 1..n /\ first + 1 - 1 = first
            BY <1>1
        <3>2. QED BY <3>1
    <2>3. \A i \in tied : shift[i] \in ties
        <3> SUFFICES ASSUME NEW i \in tied PROVE i - first + 1 \in ties
            OBVIOUS
        <3>1. i - first + 1 \in 1..n /\ first + (i - first + 1) - 1 = i /\ bank[i].time = bank[first].time
            BY <2>1
        <3>2. when[i - first + 1] = bank[i].time
            BY <3>1
        <3>3. QED BY <2>2, <3>1, <3>2
    <2>4. \A i, j \in tied : shift[i] = shift[j] => i = j
        <3>1. \A i, j \in first..last : i - first + 1 = j - first + 1 => i = j
            OBVIOUS
        <3>2. tied \subseteq first..last
            OBVIOUS
        <3>3. QED BY <3>1, <3>2
    <2>5. \A k \in ties : \E i \in tied : shift[i] = k
        <3> SUFFICES ASSUME NEW k \in ties PROVE \E i \in tied : shift[i] = k
            OBVIOUS
        <3>1. first + k - 1 \in first..last /\ when[k] = bank[first + k - 1].time /\ when[k] = when[1]
            BY <1>1
        <3>2. first + k - 1 \in tied
            BY <2>2, <3>1
        <3>3. (first + k - 1) - first + 1 = k
            BY <1>1
        <3>4. QED BY <3>2, <3>3
    <2>6. shift \in [tied -> ties]
        BY <2>3
    <2> HIDE DEF shift, tied, ties
    <2>7. shift \in Injection(tied, ties)
        BY <2>4, <2>6 DEF Injection, IsInjective
    <2>8. shift \in Surjection(tied, ties)
        BY <2>5, <2>6 DEF Surjection
    <2>9. QED BY <2>7, <2>8 DEF Bijection
<1>6. IsFiniteSet(tied)
    <2>1. first \in Int /\ last \in Int
        BY BookType
    <2>2. IsFiniteSet(first..last)
        BY <2>1, FS_Interval
    <2>3. QED BY <2>2, FS_Subset
<1>7. size = Cardinality(ties)
    <2> HIDE DEF tied, ties, shift
    <2>1. ExistsBijection(tied, ties)
        BY <1>5 DEF ExistsBijection
    <2>2. QED BY <1>6, <2>1, FS_Bijection
<1> HIDE DEF lines
<1>9. size \in 1..n /\ \A i \in 1..n : when[i] = when[1] <=> i <= size
    <2>1. ties \in SUBSET (1..n) /\ \A i \in 1..n : i \in ties <=> when[i] = when[1]
        OBVIOUS
    <2>2. when \in [1..n -> Int]
        BY <1>3 DEF when
    <2> HIDE DEF size, ties, n, when
    <2>3. QED BY <1>1, <1>4, <1>7, <2>1, <2>2, LeadingLength
<1>10. \A i \in 1..Len(lines) : lines[i].time = lines[1].time <=> i <= size
    <2>1. \A i \in 1..n : lines[i].time = when[i]
        BY <1>3
    <2>2. 1 \in 1..n
        BY <1>1
    <2> HIDE DEF when, n, size
    <2>3. QED BY <1>2, <1>9, <2>1, <2>2
<1>11. \A i \in 1..Len(lines) : lines[1].time <= lines[i].time
    <2>1. ASSUME NEW i \in 1..n PROVE when[1] <= when[i]
        <3>1. 1 \in 1..n /\ (i = 1 \/ 1 < i) /\ when[1] \in Int
            BY <1>1, <1>3
        <3> HIDE DEF when
        <3>2. QED BY <1>4, <3>1
    <2>2. \A i \in 1..n : lines[i].time = when[i]
        BY <1>3
    <2>3. 1 \in 1..n
        BY <1>1
    <2> HIDE DEF when, n
    <2>4. QED BY <1>2, <2>1, <2>2, <2>3
<1>12. Leading(first, last) = [k \in 1..size |-> LineOf(first + k - 1)]
    BY DEF Leading
<1>13. \A k \in 1..size : first + k - 1 \in first..last /\ LineOf(first + k - 1) \in TheLine
    <2> SUFFICES ASSUME NEW k \in 1..size PROVE first + k - 1 \in first..last /\ LineOf(first + k - 1) \in TheLine
        OBVIOUS
    <2>1. k \in 1..n
        BY <1>1, <1>9
    <2>2. QED BY <1>1, <2>1, LineType
<1> HIDE DEF size
<1>16. size \in Nat \ {0}
    BY <1>1, <1>9
<1>14. /\ Leading(first, last) \in Seq(TheLine) /\ Len(Leading(first, last)) = size
       /\ Leading(first, last) # <<>>
       /\ \A k \in 1..size : Leading(first, last)[k] = LineOf(first + k - 1)
    <2> DEFINE L(k) == LineOf(first + k - 1)
    <2>1. Leading(first, last) = [k \in 1..size |-> L(k)] /\ \A k \in 1..size : L(k) \in TheLine
        BY <1>12, <1>13
    <2> HIDE DEF L
    <2>2. /\ Leading(first, last) \in Seq(TheLine) /\ Len(Leading(first, last)) = size
          /\ \A k \in 1..size : Leading(first, last)[k] = L(k)
        BY <1>16, <2>1
    <2>3. Leading(first, last) # <<>>
        BY <1>16, <2>2
    <2>4. QED BY <2>2, <2>3 DEF L
<1>15. FirstMoment(lines, Len(Leading(first, last)))
    BY <1>10, <1>11, <1>14 DEF FirstMoment
<1>17. QED BY <1>2, <1>9, <1>13, <1>14, <1>15 DEF lines

(* The lines of the first moment fit in the order in which they were       *)
(* booked, if none of them shows the overdraft's balance.                  *)
LEMMA LeadingConsistent ==
    ASSUME BookOpen, NEW first \in 1..Len(bank), NEW last \in first..Len(bank),
           \A n \in 1..Len(Leading(first, last)) : ~bank[first + n - 1].debt
    PROVE  /\ SelfConsistent(Leading(first, last))
           /\ Leading(first, last)[1].balance - Delta(Leading(first, last)[1]) = Booked(first - 1)
<1> DEFINE lead == Leading(first, last)
           size == Len(lead)
<1>1. /\ size \in Nat \ {0} /\ DOMAIN lead = 1..size
      /\ \A n \in 1..size : first + n - 1 \in 1..Len(bank) /\ lead[n] = LineOf(first + n - 1)
    <2>0. PICK furniture : furniture \in Furniture
        <3>1. bank[first].text \in STRING
            BY BookType
        <3>2. {} \in SUBSET Nat
            OBVIOUS
        <3>3. [heading |-> bank[first].text, pages |-> {}] \in [heading : STRING, pages : SUBSET Nat]
            BY <3>1, <3>2
        <3>4. QED BY <3>3 DEF Furniture
    <2>1. /\ lead \in Seq(TheLine) /\ lead # <<>>
          /\ \A n \in 1..size : first + n - 1 \in first..last /\ lead[n] = LineOf(first + n - 1)
        BY <2>0, LeadingType
    <2>2. first..last \subseteq 1..Len(bank)
        BY BookType
    <2> HIDE DEF lead
    <2>3. QED BY <2>1, <2>2
<1>2. \A n \in 1..size : /\ lead[n].balance = Booked(first + n - 1)
                         /\ Delta(lead[n]) = bank[first + n - 1].delta
                         /\ bank[first + n - 1].delta \in Int
                         /\ Booked(first + n - 1) \in Int /\ Booked(first + n - 1 - 1) \in Int
                         /\ Booked(first + n - 1) = Booked(first + n - 1 - 1) + bank[first + n - 1].delta
    <2> SUFFICES ASSUME NEW n \in 1..size
                 PROVE /\ lead[n].balance = Booked(first + n - 1)
                       /\ Delta(lead[n]) = bank[first + n - 1].delta
                       /\ bank[first + n - 1].delta \in Int
                       /\ Booked(first + n - 1) \in Int /\ Booked(first + n - 1 - 1) \in Int
                       /\ Booked(first + n - 1) = Booked(first + n - 1 - 1) + bank[first + n - 1].delta
        OBVIOUS
    <2>1. PICK i \in 1..Len(bank) : i = first + n - 1
        BY <1>1
    <2>2. lead[n] = LineOf(i) /\ ~bank[i].debt
        BY <1>1, <2>1
    <2>3. lead[n].balance = Booked(i) /\ Delta(lead[n]) = bank[i].delta
        BY <2>2, LineType, LineDelta
    <2>4. i \in 0..Len(bank) /\ i - 1 \in 0..Len(bank) /\ bank[i].delta \in Int
        BY BookType
    <2>5. Booked(i) \in Int /\ Booked(i - 1) \in Int /\ Booked(i) = Booked(i - 1) + bank[i].delta
        BY <2>4, BookedSteps
    <2>6. QED BY <2>1, <2>3, <2>4, <2>5
<1> HIDE DEF lead, size
<1>3. \A a, b, d \in Int : a = b + d => a - d = b
    OBVIOUS
<1>4. lead[1].balance - Delta(lead[1]) = Booked(first - 1) /\ 1 \in 1..size /\ Booked(first - 1) \in Int
    <2>1. 1 \in 1..size /\ first + 1 - 1 = first
        BY <1>1
    <2>2. /\ lead[1].balance = Booked(first) /\ Delta(lead[1]) = bank[first].delta /\ bank[first].delta \in Int
          /\ Booked(first) \in Int /\ Booked(first - 1) \in Int
          /\ Booked(first) = Booked(first - 1) + bank[first].delta
        BY <1>2, <2>1
    <2>3. QED BY <1>3, <2>1, <2>2
<1>5. ASSUME NEW n \in 1..size
      PROVE  (IF n = 1 THEN lead[1].balance - Delta(lead[1]) ELSE lead[n - 1].balance) + Delta(lead[n])
               = lead[n].balance
    <2>1. (IF n = 1 THEN lead[1].balance - Delta(lead[1]) ELSE lead[n - 1].balance) = Booked(first + n - 1 - 1)
        <3>1. CASE n = 1
            <4>1. first + n - 1 - 1 = first - 1
                BY <3>1
            <4>2. QED BY <1>4, <3>1, <4>1
        <3>2. CASE n # 1
            <4>1. n - 1 \in 1..size /\ first + (n - 1) - 1 = first + n - 1 - 1
                BY <1>1, <3>2
            <4>2. lead[n - 1].balance = Booked(first + (n - 1) - 1)
                BY <1>2, <4>1
            <4>3. QED BY <3>2, <4>1, <4>2
        <3>3. QED BY <3>1, <3>2
    <2>2. QED BY <1>2, <2>1
<1>6. SelfConsistent(lead)
    BY <1>1, <1>5 DEF SelfConsistent, Reconciles
<1>7. QED BY <1>4, <1>6 DEF lead

-----------------------------------------------------------------------------
(* The opening balance that a replayed statement's rows give. *)
LEMMA ChainedOpening ==
    ASSUME NEW lines \in Seq(TheLine), NEW opening \in Int, NEW rows, rows = Chained(lines, opening), rows # <<>>
    PROVE  rows[1].balance - Delta(rows[1]) = opening
<1>1. rows \in Seq(TheLine) /\ Reconciles(rows, opening)
    BY ChainedType, ChainedReconciles DEF TheLine
<1>2. 1 \in DOMAIN rows /\ rows[1] \in TheLine
    BY <1>1
<1>3. opening + Delta(rows[1]) = rows[1].balance
    BY <1>1, <1>2 DEF Reconciles
<1>4. Delta(rows[1]) \in Int
    BY <1>2, DeltaType
<1>5. QED BY <1>3, <1>4

(* What an import can tell the opening balance from. *)
Telling(first, last, lost, anchor) ==
    /\ ~(setup.provider = "Mentor Sacco" /\ ~anchor /\ bank[first].delta < 0)
    /\ lost = 0 \/ (anchor /\ setup.provider # "M-Pesa")
    /\ setup.provider = "M-Pesa" =>
           /\ Cardinality(Fitting(Leading(first, last))) = 1
           /\ \A n \in DOMAIN Leading(first, last) : ~bank[first + n - 1].debt

LEMMA ParsedOpening ==
    ASSUME BookOpen, NEW first \in 1..Len(bank), NEW last \in first..Len(bank),
           NEW lost \in 0..last - first + 1, NEW anchor \in BOOLEAN, NEW furniture \in Furniture,
           Telling(first, last, lost, anchor),
           NEW rows, rows = Parse(setup.provider, StatementOf(first, last, lost, anchor, furniture)),
           rows # None, rows # <<>>
    PROVE  rows[1].balance - Delta(rows[1]) = Booked(first - 1)
<1> DEFINE s == StatementOf(first, last, lost, anchor, furniture)
<1>1. /\ s.lines \in Seq(TheLine) /\ Len(s.lines) = last - first + 1 /\ s.lost = lost
      /\ \A k \in 1..last - first + 1 : s.lines[k] = LineOf(first + k - 1)
      /\ s.opening = IF anchor THEN Booked(first - 1) ELSE None
      /\ Booked(first - 1) \in Int
    BY StatementType
<1>20. s.above \in [1..last - first + 1 -> Seq(STRING)]
    BY StatementAbove
<1>2. s.total = None \/ s.total.closing - s.total.credit + s.total.debit = Booked(first - 1)
    <2>1. CASE anchor
        <3>1. anchor = TRUE
            BY <2>1
        <3>2. QED BY <3>1, TotalsGiveOpening
    <2>2. CASE ~anchor
        BY <2>2 DEF StatementOf
    <2>3. QED BY <2>1, <2>2
<1>3. None \notin Int
    BY FiguresAssumption
<1>4. rows = Parse(setup.provider, s)
    OBVIOUS
<1> HIDE DEF s
<1>5. Found(s) \in Seq(TheLine)
    BY <1>1, FoundLines DEF TheLine
<1>6. EquityLines(s) \in Seq(TheLine)
    BY <1>1, <1>20, FoldedLines DEF TheLine
<1>7. lost = 0 => Found(s) = s.lines
    BY <1>1 DEF Found
<1>8. /\ first \in 1..Len(bank) /\ 1 \in 1..last - first + 1 /\ first + 1 - 1 = first
      /\ s.lines[1] = LineOf(first)
    <2>1. 1 \in 1..last - first + 1 /\ first + 1 - 1 = first
        BY BookType
    <2>2. QED BY <1>1, <2>1
<1>9. CASE setup.provider = "NCBA Bank"
    <2>1. rows = ParseNcba(s)
        BY <1>4, <1>9 DEF Parse
    <2>2. s.opening = Booked(first - 1) /\ rows = Chained(Found(s), Booked(first - 1))
        BY <1>1, <2>1 DEF ParseNcba, Validated
    <2>3. QED BY <1>1, <1>5, <2>2, ChainedOpening
<1>10. CASE setup.provider = "Equity Bank"
    <2>1. rows = ParseEquity(s)
        BY <1>4, <1>10 DEF Parse
    <2>2. s.total # None
        BY <2>1 DEF ParseEquity
    <2>3. rows = Chained(EquityLines(s), Booked(first - 1))
        BY <1>2, <2>1, <2>2 DEF ParseEquity, Validated
    <2>4. QED BY <1>1, <1>6, <2>3, ChainedOpening
<1>11. CASE setup.provider = "Mentor Sacco"
    <2>1. rows = ParseSection(s)
        BY <1>4, <1>11 DEF Parse
    <2>2. SectionOpening(s) = Booked(first - 1)
        <3>1. CASE anchor
            <4>1. s.opening = Booked(first - 1)
                BY <1>1, <3>1
            <4>2. QED BY <1>1, <1>3, <4>1 DEF SectionOpening
        <3>2. CASE ~anchor
            <4>1. lost = 0 /\ ~(bank[first].delta < 0)
                BY <1>11, <3>2 DEF Telling
            <4>2. Found(s) = s.lines /\ s.lines # <<>> /\ s.opening = None
                BY <1>1, <1>7, <1>8, <3>2, <4>1
            <4>3. SectionOpening(s) = LineOf(first).balance - LineOf(first).amount
                BY <1>8, <4>2 DEF SectionOpening
            <4>4. bank[first].delta \in Int /\ ~bank[first].debt
                <5>1. setup.provider # "M-Pesa"
                    BY <1>11
                <5>2. QED BY <5>1, BookType
            <4>5. LineOf(first).balance = Booked(first) /\ LineOf(first).amount = bank[first].delta
                BY <4>1, <4>4, LineType DEF Abs
            <4>6. Booked(first) = Booked(first - 1) + bank[first].delta
                BY BookedSteps
            <4>7. QED BY <1>1, <4>3, <4>4, <4>5, <4>6
        <3>3. QED BY <3>1, <3>2
    <2>3. rows = Chained(Found(s), Booked(first - 1))
        BY <2>1, <2>2 DEF ParseSection, Validated
    <2>4. QED BY <1>1, <1>5, <2>3, ChainedOpening
<1>12. CASE setup.provider = "M-Pesa"
    <2> DEFINE lead == Leading(first, last)
               lines == s.lines
               sorted == Ascending(Reverse(lines))
    <2>1. lost = 0 /\ Cardinality(Fitting(lead)) = 1 /\ \A n \in DOMAIN lead : ~bank[first + n - 1].debt
        BY <1>12 DEF Telling
    <2>2. rows = ResolveLeadingTie(sorted)
        BY <1>4, <1>7, <1>12, <2>1 DEF Parse, ParseMpesa
    <2>3. /\ lead \in Seq(TheLine) /\ lead # <<>> /\ Len(lead) \in 1..Len(lines)
          /\ \A n \in 1..Len(lead) : lead[n] = LineOf(first + n - 1)
          /\ FirstMoment(lines, Len(lead))
        BY LeadingType DEF s
    <2>4. /\ lines \in Seq(TheLine) /\ lines # <<>> /\ Len(lines) = last - first + 1
          /\ \A k \in 1..Len(lines) : lines[k] = LineOf(first + k - 1)
        BY <1>1, <1>8
    <2>5. SelfConsistent(lead) /\ lead[1].balance - Delta(lead[1]) = Booked(first - 1)
        <3>1. DOMAIN lead = 1..Len(lead)
            <4> HIDE DEF lead
            <4> QED BY <2>3
        <3>2. \A n \in 1..Len(lead) : ~bank[first + n - 1].debt
            BY <2>1, <3>1
        <3>3. QED BY <3>2, LeadingConsistent
    <2> HIDE DEF lead, lines
    <2>6. /\ sorted \in Seq(TheLine) /\ Len(sorted) = Len(lines)
          /\ \A k \in 1..Len(lead) : sorted[k] = lines[Len(lead) + 1 - k]
          /\ Cardinality(LeadingTie(sorted)) = Len(lead)
        <3>1. lines \in Seq(TheLine) /\ lines # <<>> /\ Len(lead) \in 1..Len(lines) /\ FirstMoment(lines, Len(lead))
            BY <2>3, <2>4
        <3>2. sorted = Ascending(Reverse(lines))
            OBVIOUS
        <3> HIDE DEF sorted
        <3>3. QED BY <3>1, <3>2, SortedLead
    <2> HIDE DEF sorted
    <2>7. \A k \in 1..Len(lead) : lines[Len(lead) + 1 - k] = lead[Len(lead) + 1 - k]
        <3>1. \A k \in 1..Len(lead) : Len(lead) + 1 - k \in 1..Len(lead) /\ Len(lead) + 1 - k \in 1..Len(lines)
            BY <2>3
        <3>2. QED BY <2>3, <2>4, <3>1
    <2>8. /\ \A k \in 1..Len(lead) : sorted[k] = lead[Len(lead) + 1 - k]
          /\ Len(lead) <= Len(sorted)
        BY <2>3, <2>6, <2>7
    <2>9. ResolveLeadingTie(sorted)[1] = lead[1]
        <3>1. /\ sorted \in Seq(TheLine) /\ lead \in Seq(TheLine) /\ lead # <<>> /\ Len(lead) <= Len(sorted)
              /\ Cardinality(LeadingTie(sorted)) = Len(lead)
              /\ \A k \in 1..Len(lead) : sorted[k] = lead[Len(lead) + 1 - k]
              /\ SelfConsistent(lead) /\ Cardinality(Fitting(lead)) = 1
            BY <2>1, <2>3, <2>5, <2>6, <2>8
        <3>2. QED BY <3>1, ResolvedLead
    <2>10. QED BY <2>2, <2>5, <2>9
<1>13. setup.provider \in {"NCBA Bank", "Equity Bank", "Mentor Sacco", "M-Pesa"}
    BY FiguresAssumption DEF BookOpen
<1>14. QED BY <1>9, <1>10, <1>11, <1>12, <1>13

LEMMA BookedUnchanged ==
    ASSUME bank' = bank PROVE \A n : Booked(n)' = Booked(n) /\ Outstanding(n)' = Outstanding(n)
BY DEF Booked, Outstanding, SumOf

LEMMA LeadingUnchanged ==
    ASSUME bank' = bank, NEW first, NEW last
    PROVE  /\ \A i : LineOf(i)' = LineOf(i)
           /\ Leading(first, last)' = Leading(first, last)
<1>1. \A i : LineOf(i)' = LineOf(i)
    BY BookedUnchanged DEF LineOf
<1>2. QED BY <1>1 DEF Leading

-----------------------------------------------------------------------------
OpeningOf(m) ==
    m.opening # None /\ Telling(m.first, m.last, m.lost, m.anchor) => m.opening = Booked(m.first - 1)

OpeningsHold == \A k \in DOMAIN imports : imports[k].accepted => OpeningOf(imports[k])

LEMMA OpeningUnchanged ==
    ASSUME bank' = bank, setup' = setup, NEW m
    PROVE  OpeningOf(m)' <=> OpeningOf(m)
<1>1. Booked(m.first - 1)' = Booked(m.first - 1)
    BY BookedUnchanged
<1>2. Leading(m.first, m.last)' = Leading(m.first, m.last)
    BY LeadingUnchanged
<1>3. Telling(m.first, m.last, m.lost, m.anchor)' <=> Telling(m.first, m.last, m.lost, m.anchor)
    BY <1>2 DEF Telling
<1>4. QED BY <1>1, <1>3 DEF OpeningOf

(* The opening balance that process_job records with an import is what the *)
(* bank held before the statement, wherever the statement tells it.        *)
THEOREM OpeningsAreTrue == Spec => []OpeningIsTrue
<1>1. Init => OpeningsHold
    BY DEF Init, OpeningsHold
<1>2. ASSUME Typed, OpeningsHold, [Next]_figures PROVE OpeningsHold'
    <2>0. BookOpen /\ imports \in Seq(Import) /\ DOMAIN bank = 1..Len(bank)
        BY <1>2, BookType DEF Typed
    <2>1. ASSUME NEW first \in DOMAIN bank, NEW anchor \in BOOLEAN, NEW furniture \in setup.furniture,
                 NEW last \in first..Len(bank), NEW lost \in 0..last - first + 1, ImportStatement(first, last, lost, anchor, furniture)
          PROVE  OpeningsHold'
        <3> DEFINE rows == Parse(setup.provider, StatementOf(first, last, lost, anchor, furniture))
                   import == [first |-> first, last |-> last, lost |-> lost, anchor |-> anchor,
                              furniture |-> furniture, accepted |-> rows # None,
                              opening |-> IF rows = None THEN None ELSE DerivedOpening(rows)]
        <3>1. imports' = Append(imports, import) /\ bank' = bank /\ setup' = setup
            BY <2>1 DEF ImportStatement
        <3>2. import.accepted => OpeningOf(import)
            <4>1. SUFFICES ASSUME rows # None, DerivedOpening(rows) # None, Telling(first, last, lost, anchor)
                           PROVE  DerivedOpening(rows) = Booked(first - 1)
                BY DEF OpeningOf
            <4>2. rows # <<>> /\ DerivedOpening(rows) = rows[1].balance - Delta(rows[1])
                BY <4>1 DEF DerivedOpening
            <4>3. rows[1].balance - Delta(rows[1]) = Booked(first - 1)
                <5>1. furniture \in Furniture
                    BY <2>0, FurnitureType
                <5>2. QED BY <2>0, <4>1, <4>2, <5>1, ParsedOpening
            <4>4. QED BY <4>2, <4>3
        <3> HIDE DEF import
        <3>3. ASSUME NEW k \in DOMAIN imports', imports'[k].accepted PROVE OpeningOf(imports[k])'
            <4>1. PICK m : m = imports'[k]
                OBVIOUS
            <4>2. m = import \/ (k \in DOMAIN imports /\ m = imports[k])
                BY <2>0, <3>1, <4>1
            <4>3. OpeningOf(m)
                BY <1>2, <3>2, <3>3, <4>1, <4>2 DEF OpeningsHold
            <4>4. OpeningOf(m)'
                BY <3>1, <4>3, OpeningUnchanged
            <4>5. QED BY <4>1, <4>4 DEF OpeningOf
        <3>4. QED BY <3>3 DEF OpeningsHold
    <2>2. ASSUME UNCHANGED <<imports, bank, setup>> PROVE OpeningsHold'
        <3>1. ASSUME NEW k \in DOMAIN imports, imports[k].accepted PROVE OpeningOf(imports[k])'
            <4>1. PICK m : m = imports[k]
                OBVIOUS
            <4>2. OpeningOf(m)'
                BY <1>2, <2>2, <3>1, <4>1, OpeningUnchanged DEF OpeningsHold
            <4>3. m = imports'[k]
                BY <2>2, <4>1
            <4>4. QED BY <4>2, <4>3, <2>2 DEF OpeningOf
        <3>2. QED BY <2>2, <3>1 DEF OpeningsHold
    <2>3. QED BY <1>2, <2>1, <2>2 DEF Next, EnterManually, Allocate, figures
<1>3. Typed /\ OpeningsHold => OpeningIsTrue
    <2>1. \A k : LeadingLines(k) = Leading(imports[k].first, imports[k].last)
        BY DEF LeadingLines, Leading
    <2>2. QED BY <2>1 DEF OpeningsHold, OpeningOf, OpeningIsTrue, Telling, Misread, Accepted
<1>4. QED BY <1>1, <1>2, <1>3, FiguresTyped, PTL DEF Spec

-----------------------------------------------------------------------------
(* A row is the j-th movement's, of a statement that begins with first. *)
Tells(row, j, first, furniture, anchor) ==
    /\ row.time = bank[j].time /\ row.text = TextIn(first, furniture, j) /\ row.amount = Abs(bank[j].delta)
    /\ row.balance = LineOf(j).balance
    /\ \/ row.direction = LineOf(j).direction
       \/ setup.provider = "Mentor Sacco" /\ ~anchor /\ j = first /\ bank[j].delta < 0

(* The opening balance that a statement's rows are replayed from. *)
OpensAt(opening, first, anchor) ==
    \/ opening = Booked(first - 1)
    \/ setup.provider = "Mentor Sacco" /\ ~anchor /\ opening = Booked(first) - Abs(bank[first].delta)

LEMMA AbsAbs == \A x \in Int : Abs(Abs(x)) = Abs(x)
BY DEF Abs

(* A movement's line, with the text that its row is given. *)
LineIn(first, furniture, j) == [LineOf(j) EXCEPT !.text = TextIn(first, furniture, j)]

LEMMA LineInType ==
    ASSUME BookOpen, NEW first \in 1..Len(bank), NEW furniture \in Furniture, NEW j \in first..Len(bank)
    PROVE  /\ LineIn(first, furniture, j) \in TheLine
           /\ LineIn(first, furniture, j).time = bank[j].time
           /\ LineIn(first, furniture, j).text = TextIn(first, furniture, j)
           /\ LineIn(first, furniture, j).amount = Abs(bank[j].delta)
           /\ LineIn(first, furniture, j).direction = LineOf(j).direction
           /\ LineIn(first, furniture, j).balance = LineOf(j).balance
<1>1. j \in 1..Len(bank)
    BY BookType
<1>2. PICK above : above = IF setup.provider = "Equity Bank" THEN Above(first, furniture, j) ELSE <<>>
    OBVIOUS
<1>3. above \in Seq(STRING)
    <2>1. Above(first, furniture, j) \in Seq(STRING)
        BY AboveType
    <2>2. CASE setup.provider = "Equity Bank"
        BY <1>2, <2>1, <2>2
    <2>3. CASE setup.provider # "Equity Bank"
        <3>1. above = <<>>
            BY <1>2, <2>3
        <3>2. <<>> \in Seq(STRING)
            OBVIOUS
        <3>3. QED BY <3>1, <3>2
    <2>4. QED BY <2>2, <2>3
<1>4. <<bank[j].text>> \in Seq(STRING)
    <2>1. bank[j].text \in STRING
        BY <1>1, BookType
    <2>2. QED BY <2>1
<1>5. TextIn(first, furniture, j) = above \o <<bank[j].text>>
    BY <1>2 DEF TextIn
<1>6. TextIn(first, furniture, j) \in Seq(STRING)
    BY <1>3, <1>4, <1>5, ConcatProperties
<1>7. LineOf(j) \in TheLine /\ LineOf(j).time = bank[j].time /\ LineOf(j).amount = Abs(bank[j].delta)
    BY <1>1, LineType
<1>8. QED BY <1>6, <1>7 DEF LineIn, TheLine, Line

(* The lines of a statement of the movements first..last. *)
ListsLines(lines, first, last, furniture) ==
    /\ lines \in Seq(TheLine) /\ Len(lines) = last - first + 1
    /\ \A k \in 1..last - first + 1 : lines[k] = LineIn(first, furniture, first + k - 1)

LEMMA Places ==
    ASSUME NEW n \in Nat, NEW first \in 1..n, NEW last \in first..n
    PROVE  /\ \A k \in 1..last - first + 1 :
                 /\ first + k - 1 \in first..last /\ first + k - 1 \in 1..n
                 /\ k = 1 => first + k - 1 = first
                 /\ k # 1 => /\ k - 1 \in 1..last - first + 1
                            /\ first + (k - 1) - 1 = (first + k - 1) - 1
                            /\ (first + k - 1) - 1 \in 1..n
           /\ \A j \in first..last : j \in 1..n /\ j - first + 1 \in 1..last - first + 1
                                    /\ first + (j - first + 1) - 1 = j
OBVIOUS

LEMMA ChainedTells ==
    ASSUME BookOpen, setup.provider # "M-Pesa",
           NEW first \in 1..Len(bank), NEW last \in first..Len(bank), NEW anchor \in BOOLEAN,
           NEW furniture \in Furniture, NEW opening \in Int, OpensAt(opening, first, anchor),
           NEW lines, ListsLines(lines, first, last, furniture), NEW k \in 1..last - first + 1
    PROVE  Tells(Chained(lines, opening)[k], first + k - 1, first, furniture, anchor)
<1>0. Len(bank) \in Nat
    BY BookType
<1>1. PICK j : j = first + k - 1
    OBVIOUS
<1>2. PICK row : row = Chained(lines, opening)[k]
    OBVIOUS
<1>3. PICK delta : delta = bank[j].delta
    OBVIOUS
<1>4. PICK before : before = IF k = 1 THEN opening ELSE lines[k - 1].balance
    OBVIOUS
<1>5. /\ j \in 1..Len(bank)
      /\ k = 1 => j = first
      /\ k # 1 => k - 1 \in 1..last - first + 1 /\ first + (k - 1) - 1 = j - 1 /\ j - 1 \in 1..Len(bank)
    BY <1>0, <1>1, Places
<1>6. /\ lines \in Seq(TheLine) /\ Len(lines) = last - first + 1
      /\ lines[k] = LineIn(first, furniture, j)
      /\ k # 1 => lines[k - 1] = LineIn(first, furniture, j - 1)
    BY <1>1, <1>5 DEF ListsLines
<1>20. /\ lines[k].time = bank[j].time /\ lines[k].text = TextIn(first, furniture, j)
       /\ lines[k].balance = LineOf(j).balance
       /\ k # 1 => lines[k - 1].balance = LineOf(j - 1).balance
    <2>1. j \in first..Len(bank) /\ (k # 1 => j - 1 \in first..Len(bank))
        BY <1>0, <1>1
    <2>2. /\ LineIn(first, furniture, j).time = bank[j].time
          /\ LineIn(first, furniture, j).text = TextIn(first, furniture, j)
          /\ LineIn(first, furniture, j).balance = LineOf(j).balance
        BY <2>1, LineInType
    <2>3. k # 1 => LineIn(first, furniture, j - 1).balance = LineOf(j - 1).balance
        BY <2>1, LineInType
    <2>4. QED BY <1>6, <2>2, <2>3
<1>7. /\ row.time = lines[k].time /\ row.text = lines[k].text /\ row.balance = lines[k].balance
      /\ row.amount = Abs(lines[k].balance - before)
      /\ row.direction = IF lines[k].balance - before >= 0 THEN "in" ELSE "out"
    <2>1. k \in 1..Len(lines)
        BY <1>6
    <2>2. /\ row.time = lines[k].time /\ row.text = lines[k].text /\ row.balance = lines[k].balance
          /\ row.amount = Abs(lines[k].balance - IF k = 1 THEN opening ELSE lines[k - 1].balance)
          /\ row.direction = IF lines[k].balance - (IF k = 1 THEN opening ELSE lines[k - 1].balance) >= 0
                             THEN "in" ELSE "out"
        <3>1. lines \in Seq(TheLine)
            BY <1>6
        <3>2. PICK chained : chained = Chained(lines, opening)
            OBVIOUS
        <3>3. \A i \in 1..Len(lines) :
                 /\ chained[i].time = lines[i].time /\ chained[i].text = lines[i].text
                 /\ chained[i].balance = lines[i].balance
                 /\ chained[i].amount = Abs(lines[i].balance - IF i = 1 THEN opening ELSE lines[i - 1].balance)
                 /\ chained[i].direction = IF lines[i].balance - (IF i = 1 THEN opening ELSE lines[i - 1].balance) >= 0
                                           THEN "in" ELSE "out"
            BY <3>1, <3>2, ChainedType DEF TheLine
        <3>4. row = chained[k]
            BY <1>2, <3>2
        <3>5. QED BY <2>1, <3>3, <3>4
    <2>3. QED BY <1>4, <2>2
<1>8. /\ LineOf(j).balance = Booked(j)
      /\ LineOf(j).direction = IF delta > 0 THEN "in" ELSE "out"
      /\ delta \in Int /\ delta # 0 /\ Booked(j) \in Int /\ Booked(j - 1) \in Int /\ Booked(j) = Booked(j - 1) + delta
    <2>1. ~bank[j].debt /\ delta \in Int /\ delta # 0
        BY <1>3, <1>5, BookType
    <2>2. Booked(j) \in Int /\ Booked(j - 1) \in Int /\ Booked(j) = Booked(j - 1) + delta
        <3>1. j \in 0..Len(bank) /\ j - 1 \in 0..Len(bank)
            BY <1>0, <1>5
        <3>2. QED BY <1>3, <1>5, <3>1, BookedSteps
    <2>3. QED BY <1>3, <1>5, <2>1, <2>2, LineType
<1>9. k # 1 => before = Booked(j - 1)
    <2>1. SUFFICES ASSUME k # 1 PROVE lines[k - 1].balance = Booked(j - 1)
        BY <1>4
    <2>2. ~bank[j - 1].debt
        BY <1>5, <2>1, BookType
    <2>3. LineOf(j - 1).balance = Booked(j - 1)
        BY <1>5, <2>1, <2>2, LineType
    <2>4. QED BY <1>20, <2>1, <2>3
<1>10. /\ row.time = bank[j].time /\ row.text = TextIn(first, furniture, j)
       /\ row.balance = LineOf(j).balance /\ lines[k].balance = LineOf(j).balance
    BY <1>7, <1>20
<1>11. CASE before = Booked(j - 1)
    <2>1. Booked(j) - before = delta
        BY <1>8, <1>11
    <2>2. row.amount = Abs(delta) /\ row.direction = LineOf(j).direction
        BY <1>7, <1>8, <1>10, <2>1
    <2>3. QED BY <1>1, <1>2, <1>3, <1>10, <2>2 DEF Tells
<1>12. CASE setup.provider = "Mentor Sacco" /\ ~anchor /\ j = first /\ before = Booked(j) - Abs(delta)
    <2>1. Abs(delta) \in Nat /\ Abs(Abs(delta)) = Abs(delta)
        BY <1>8, AbsType, AbsAbs
    <2>2. Booked(j) - before = Abs(delta)
        <3>1. \A a, b \in Int : a - (a - b) = b
            OBVIOUS
        <3>2. Booked(j) \in Int /\ Abs(delta) \in Int
            BY <1>8, <2>1
        <3>3. Booked(j) - (Booked(j) - Abs(delta)) = Abs(delta)
            BY <3>1, <3>2
        <3>4. QED BY <1>12, <3>3
    <2>3. row.amount = Abs(delta) /\ row.direction = "in"
        <3>1. row.amount = Abs(Booked(j) - before)
            BY <1>7, <1>8, <1>10
        <3>2. row.direction = IF Booked(j) - before >= 0 THEN "in" ELSE "out"
            BY <1>7, <1>8, <1>10
        <3>3. QED BY <2>1, <2>2, <3>1, <3>2
    <2>4. row.direction = LineOf(j).direction \/ delta < 0
        BY <1>8, <2>3
    <2>5. QED BY <1>1, <1>2, <1>3, <1>10, <1>12, <2>3, <2>4 DEF Tells
<1>13. QED
    <2>1. CASE k = 1 /\ opening = Booked(first - 1)
        BY <1>4, <1>5, <1>11, <2>1
    <2>2. CASE k = 1 /\ opening # Booked(first - 1)
        BY <1>3, <1>4, <1>5, <1>12, <2>2 DEF OpensAt
    <2>3. QED BY <1>9, <1>11, <2>1, <2>2

(* Each row is one movement's, and each movement has a row. *)
TellsAll(rows, first, last, furniture, anchor) ==
    /\ \A k \in DOMAIN rows : \E j \in first..last : Tells(rows[k], j, first, furniture, anchor)
    /\ \A j \in first..last : \E k \in DOMAIN rows : Tells(rows[k], j, first, furniture, anchor)

LEMMA ChainedTellsAll ==
    ASSUME BookOpen, setup.provider # "M-Pesa",
           NEW first \in 1..Len(bank), NEW last \in first..Len(bank), NEW anchor \in BOOLEAN,
           NEW furniture \in Furniture, NEW opening \in Int, OpensAt(opening, first, anchor),
           NEW lines, ListsLines(lines, first, last, furniture), NEW rows, rows = Chained(lines, opening)
    PROVE  TellsAll(rows, first, last, furniture, anchor)
<1>0. Len(bank) \in Nat
    BY BookType
<1>1. DOMAIN rows = 1..last - first + 1
    <2>1. Chained(lines, opening) \in Seq(TheLine) /\ Len(Chained(lines, opening)) = last - first + 1
        BY ChainedType DEF TheLine, ListsLines
    <2>2. QED BY <2>1
<1>2. \A k \in 1..last - first + 1 : Tells(rows[k], first + k - 1, first, furniture, anchor)
    BY ChainedTells
<1>3. \A k \in DOMAIN rows : \E j \in first..last : Tells(rows[k], j, first, furniture, anchor)
    BY <1>0, <1>1, <1>2, Places
<1>4. ASSUME NEW j \in first..last PROVE \E k \in DOMAIN rows : Tells(rows[k], j, first, furniture, anchor)
    <2>1. j - first + 1 \in 1..last - first + 1 /\ first + (j - first + 1) - 1 = j
        BY <1>0, Places
    <2>2. QED BY <1>1, <1>2, <2>1
<1>5. QED BY <1>3, <1>4 DEF TellsAll

LEMMA LineTells ==
    ASSUME BookOpen, NEW first \in 1..Len(bank), NEW furniture \in Furniture, NEW j \in first..Len(bank), NEW anchor
    PROVE  Tells(LineIn(first, furniture, j), j, first, furniture, anchor)
BY LineInType DEF Tells

LEMMA MpesaTellsAll ==
    ASSUME BookOpen, NEW first \in 1..Len(bank), NEW last \in first..Len(bank), NEW anchor,
           NEW furniture \in Furniture, NEW lines, ListsLines(lines, first, last, furniture),
           NEW rows, rows = ResolveLeadingTie(Ascending(Reverse(lines)))
    PROVE  TellsAll(rows, first, last, furniture, anchor)
<1> DEFINE t == Reverse(lines)
           u == Ascending(t)
<1>0. Len(bank) \in Nat
    BY BookType
<1>1. t \in Seq(TheLine) /\ Range(t) = Range(lines)
    BY ReverseRows DEF ListsLines
<1> HIDE DEF t
<1>2. u \in Seq(TheLine) /\ Range(u) = Range(t)
    <2>1. 1..MaxTime \subseteq Int
        OBVIOUS
    <2>2. QED BY <1>1, <2>1, AscendingRows DEF TheLine
<1> HIDE DEF u
<1>3. Range(rows) = Range(lines)
    <2>1. rows = ResolveLeadingTie(u)
        BY DEF t, u
    <2>2. Range(ResolveLeadingTie(u)) = Range(u)
        BY <1>2, ResolvedRows
    <2>3. QED BY <1>1, <1>2, <2>1, <2>2
<1>4. DOMAIN lines = 1..last - first + 1 /\ \A k \in 1..last - first + 1 : lines[k] = LineIn(first, furniture, first + k - 1)
    BY DEF ListsLines
<1>5. \A j \in first..last : j \in first..Len(bank) /\ Tells(LineIn(first, furniture, j), j, first, furniture, anchor)
    <2>1. \A j \in first..last : j \in first..Len(bank)
        BY <1>0
    <2>2. QED BY <2>1, LineTells
<1>6. ASSUME NEW k \in DOMAIN rows PROVE \E j \in first..last : Tells(rows[k], j, first, furniture, anchor)
    <2>1. rows[k] \in Range(lines)
        BY <1>3 DEF Range
    <2>2. PICK i \in 1..last - first + 1 : rows[k] = lines[i]
        BY <1>4, <2>1 DEF Range
    <2>3. first + i - 1 \in first..last
        BY <1>0, Places
    <2>4. QED BY <1>4, <1>5, <2>2, <2>3
<1>7. ASSUME NEW j \in first..last PROVE \E k \in DOMAIN rows : Tells(rows[k], j, first, furniture, anchor)
    <2>1. j - first + 1 \in 1..last - first + 1 /\ first + (j - first + 1) - 1 = j
        BY <1>0, Places
    <2>2. lines[j - first + 1] = LineIn(first, furniture, j)
        BY <1>4, <2>1
    <2>3. LineIn(first, furniture, j) \in Range(rows)
        BY <1>3, <1>4, <2>1, <2>2 DEF Range
    <2>4. PICK k \in DOMAIN rows : rows[k] = LineIn(first, furniture, j)
        BY <2>3 DEF Range
    <2>5. QED BY <1>5, <2>4
<1>8. QED BY <1>6, <1>7 DEF TellsAll

(* What the parsers take for the lines of a statement of which none is lost. *)
LEMMA ReadLines ==
    ASSUME BookOpen, NEW first \in 1..Len(bank), NEW last \in first..Len(bank), NEW furniture \in Furniture, NEW s,
           s.lines \in Seq(TheLine), Len(s.lines) = last - first + 1, s.lost = 0,
           \A k \in 1..last - first + 1 : s.lines[k] = LineOf(first + k - 1),
           s.above \in [1..last - first + 1 -> Seq(STRING)],
           \A k \in 1..last - first + 1 : s.above[k] = Above(first, furniture, first + k - 1)
    PROVE  /\ setup.provider = "Equity Bank" => ListsLines(EquityLines(s), first, last, furniture)
           /\ setup.provider # "Equity Bank" => ListsLines(s.lines, first, last, furniture)
<1>1. PICK n \in Nat : n = last - first + 1
    BY BookType
<1>2. \A k \in 1..n : first + k - 1 \in 1..Len(bank)
    <2>1. Len(bank) \in Nat
        BY BookType
    <2>2. QED BY <1>1, <2>1
<1>3. ASSUME setup.provider = "Equity Bank" PROVE ListsLines(EquityLines(s), first, last, furniture)
    <2>1. EquityLines(s) = WithAbove(s)
        <3>1. s.lost = 0 /\ ~(0 \in 1..Len(WithAbove(s)) - 1)
            OBVIOUS
        <3>2. QED BY <3>1 DEF EquityLines
    <2>2. /\ WithAbove(s) \in Seq(TheLine) /\ Len(WithAbove(s)) = n
          /\ \A k \in 1..n : WithAbove(s)[k] = Titled(s.lines[k], s.above[k])
        <3>1. s.lines \in Seq(Line(1..MaxTime, Seq(STRING))) /\ s.above \in [1..Len(s.lines) -> Seq(STRING)]
            BY DEF TheLine
        <3>2. /\ WithAbove(s) \in Seq(Line(1..MaxTime, Seq(STRING))) /\ Len(WithAbove(s)) = Len(s.lines)
              /\ \A k \in 1..Len(s.lines) : WithAbove(s)[k] = Titled(s.lines[k], s.above[k])
            <4>1. PICK Time, Word : Time = 1..MaxTime /\ Word = STRING
                OBVIOUS
            <4>2. s.lines \in Seq(Line(Time, Seq(Word))) /\ s.above \in [1..Len(s.lines) -> Seq(Word)]
                BY <3>1, <4>1
            <4>3. WithAbove(s) \in Seq(Line(Time, Seq(Word))) /\ Len(WithAbove(s)) = Len(s.lines)
                BY <4>2, WithAboveType
            <4>4. AllTitled(WithAbove(s), s)
                BY <4>2, WithAboveType
            <4>6. \A k \in 1..Len(s.lines) : WithAbove(s)[k] = Titled(s.lines[k], s.above[k])
                BY <4>4 DEF AllTitled
            <4>5. QED BY <4>1, <4>3, <4>6
        <3>3. QED BY <1>1, <3>2 DEF TheLine
    <2>3. ASSUME NEW k \in 1..n PROVE WithAbove(s)[k] = LineIn(first, furniture, first + k - 1)
        <3>1. PICK j \in 1..Len(bank) : j = first + k - 1
            BY <1>2
        <3>2. LineOf(j).text = <<bank[j].text>>
            BY <3>1, LineType
        <3>6. WithAbove(s)[k] = Titled(LineOf(j), Above(first, furniture, j))
            BY <1>1, <2>2, <3>1
        <3>3. WithAbove(s)[k] = [LineOf(j) EXCEPT !.text = Above(first, furniture, j) \o <<bank[j].text>>]
            BY <3>2, <3>6 DEF Titled
        <3>4. TextIn(first, furniture, j) = Above(first, furniture, j) \o <<bank[j].text>>
            BY <1>3 DEF TextIn
        <3>5. QED BY <3>1, <3>3, <3>4 DEF LineIn
    <2>4. QED BY <1>1, <2>1, <2>2, <2>3 DEF ListsLines
<1>4. ASSUME setup.provider # "Equity Bank" PROVE ListsLines(s.lines, first, last, furniture)
    <2>1. ASSUME NEW k \in 1..n PROVE s.lines[k] = LineIn(first, furniture, first + k - 1)
        <3>1. PICK j \in 1..Len(bank) : j = first + k - 1
            BY <1>2
        <3>2. LineOf(j).text = <<bank[j].text>> /\ LineOf(j) \in TheLine
            BY <3>1, LineType
        <3>3. TextIn(first, furniture, j) = LineOf(j).text
            <4>1. PICK text \in Seq(STRING) : text = <<bank[j].text>>
                <5>1. bank[j].text \in STRING
                    BY <3>1, BookType
                <5>2. <<bank[j].text>> \in Seq(STRING)
                    BY <5>1
                <5>3. QED BY <5>2
            <4>2. <<>> \o text = text
                BY ConcatEmptySeq
            <4>3. QED BY <1>4, <3>2, <4>1, <4>2 DEF TextIn
        <3>4. LineIn(first, furniture, j) = LineOf(j)
            BY <3>2, <3>3 DEF LineIn, TheLine, Line
        <3>5. QED BY <1>1, <3>1, <3>4
    <2>2. QED BY <1>1, <2>1 DEF ListsLines
<1>5. QED BY <1>3, <1>4

(* If no line is lost, a statement that is accepted tells its movements. *)
LEMMA ParsedTellsAll ==
    ASSUME BookOpen, NEW first \in 1..Len(bank), NEW last \in first..Len(bank), NEW anchor \in BOOLEAN,
           NEW furniture \in Furniture,
           NEW rows, rows = Parse(setup.provider, StatementOf(first, last, 0, anchor, furniture)), rows # None
    PROVE  TellsAll(rows, first, last, furniture, anchor)
<1> DEFINE s == StatementOf(first, last, 0, anchor, furniture)
<1>1. /\ s.lines \in Seq(TheLine) /\ Len(s.lines) = last - first + 1 /\ s.lost = 0
      /\ \A k \in 1..last - first + 1 : s.lines[k] = LineOf(first + k - 1)
      /\ s.opening = IF anchor THEN Booked(first - 1) ELSE None
      /\ Booked(first - 1) \in Int
    BY StatementType
<1>20. /\ s.above \in [1..last - first + 1 -> Seq(STRING)]
       /\ \A k \in 1..last - first + 1 : s.above[k] = Above(first, furniture, first + k - 1)
    <2>1. PICK above : above = s.above
        OBVIOUS
    <2>2. /\ above \in [1..last - first + 1 -> Seq(STRING)]
          /\ \A k \in 1..last - first + 1 : above[k] = Above(first, furniture, first + k - 1)
        <3>1. above \in [1..last - first + 1 -> Seq(STRING)]
            BY <2>1, StatementAbove
        <3>2. above = [k \in 1..last - first + 1 |-> Above(first, furniture, first + k - 1)]
            BY <2>1 DEF StatementOf
        <3>3. QED BY <3>1, <3>2
    <2> HIDE DEF s
    <2>3. QED BY <2>1, <2>2
<1>2. s.total = None \/ s.total.closing - s.total.credit + s.total.debit = Booked(first - 1)
    <2>1. CASE anchor
        <3>1. anchor = TRUE
            BY <2>1
        <3>2. QED BY <3>1, TotalsGiveOpening
    <2>2. CASE ~anchor
        BY <2>2 DEF StatementOf
    <2>3. QED BY <2>1, <2>2
<1>3. None \notin Int
    BY FiguresAssumption
<1>4. rows = Parse(setup.provider, s)
    OBVIOUS
<1>5. Found(s) = s.lines
    BY <1>1 DEF Found
<1> HIDE DEF s
<1>21. /\ setup.provider = "Equity Bank" => ListsLines(EquityLines(s), first, last, furniture)
       /\ setup.provider # "Equity Bank" => ListsLines(s.lines, first, last, furniture)
    BY <1>1, <1>20, ReadLines
<1>6. ASSUME NEW opening \in Int, setup.provider # "M-Pesa", OpensAt(opening, first, anchor),
             NEW lines, ListsLines(lines, first, last, furniture), rows = Chained(lines, opening)
      PROVE  TellsAll(rows, first, last, furniture, anchor)
    BY <1>6, ChainedTellsAll
<1>7. CASE setup.provider = "NCBA Bank"
    <2>1. rows = ParseNcba(s)
        BY <1>4, <1>7 DEF Parse
    <2>2. rows = Chained(s.lines, Booked(first - 1))
        BY <1>1, <1>5, <2>1 DEF ParseNcba, Validated
    <2>3. QED BY <1>1, <1>6, <1>21, <1>7, <2>2 DEF OpensAt
<1>8. CASE setup.provider = "Equity Bank"
    <2>1. rows = ParseEquity(s)
        BY <1>4, <1>8 DEF Parse
    <2>2. s.total # None
        BY <2>1 DEF ParseEquity
    <2>3. rows = Chained(EquityLines(s), Booked(first - 1))
        BY <1>2, <2>1, <2>2 DEF ParseEquity, Validated
    <2>4. QED BY <1>1, <1>6, <1>21, <1>8, <2>3 DEF OpensAt
<1>9. CASE setup.provider = "Mentor Sacco"
    <2>1. rows = ParseSection(s)
        BY <1>4, <1>9 DEF Parse
    <2>2. rows = Chained(s.lines, SectionOpening(s))
        BY <1>5, <2>1 DEF ParseSection, Validated
    <2>3. CASE anchor
        <3>1. SectionOpening(s) = Booked(first - 1)
            BY <1>1, <1>3, <2>3 DEF SectionOpening
        <3>2. QED BY <1>1, <1>6, <1>21, <1>9, <2>2, <3>1 DEF OpensAt
    <2>4. CASE ~anchor
        <3>1. 1 \in 1..last - first + 1 /\ first + 1 - 1 = first
            BY BookType
        <3>2. s.lines[1] = LineOf(first) /\ s.lines # <<>> /\ s.opening = None
            BY <1>1, <2>4, <3>1
        <3>3. SectionOpening(s) = LineOf(first).balance - LineOf(first).amount
            BY <1>5, <3>2 DEF SectionOpening
        <3>4. ~bank[first].debt /\ bank[first].delta \in Int
            <4>1. setup.provider # "M-Pesa"
                BY <1>9
            <4>2. QED BY <4>1, BookType
        <3>5. SectionOpening(s) = Booked(first) - Abs(bank[first].delta)
            BY <3>3, <3>4, LineType
        <3>6. SectionOpening(s) \in Int
            <4>1. Booked(first) \in Int /\ Abs(bank[first].delta) \in Int
                <5>1. Len(bank) \in Nat
                    BY BookType
                <5>2. first \in 0..Len(bank)
                    BY <5>1
                <5>3. Booked(first) \in Int
                    BY <5>2, BookedSteps
                <5>4. Abs(bank[first].delta) \in Nat
                    BY <3>4, AbsType
                <5>5. QED BY <5>3, <5>4
            <4>2. QED BY <3>5, <4>1, AddType
        <3>7. QED BY <1>6, <1>21, <1>9, <2>2, <2>4, <3>5, <3>6 DEF OpensAt
    <2>5. QED BY <2>3, <2>4
<1>10. CASE setup.provider = "M-Pesa"
    <2>1. rows = ParseMpesa(s)
        BY <1>4, <1>10 DEF Parse
    <2>2. rows = ResolveLeadingTie(Ascending(Reverse(s.lines)))
        BY <1>5, <2>1 DEF ParseMpesa
    <2>3. QED BY <1>10, <1>21, <2>2, MpesaTellsAll
<1>11. setup.provider \in {"NCBA Bank", "Equity Bank", "Mentor Sacco", "M-Pesa"}
    BY FiguresAssumption DEF BookOpen
<1>12. QED BY <1>7, <1>8, <1>9, <1>10, <1>11

-----------------------------------------------------------------------------
Known == {Fingerprint(transactions[t]) : t \in Posted}

(* What is posted of a statement's rows: each fingerprint that is not      *)
(* there yet, once.                                                        *)
LEMMA FreshRows ==
    ASSUME NEW X, NEW rows \in Seq(X), NEW fresh, fresh = Fresh(rows)
    PROVE  /\ \A k \in DOMAIN fresh : /\ \E i \in DOMAIN rows : fresh[k] = rows[i]
                                      /\ Fingerprint(fresh[k]) \notin Known
           /\ \A j, k \in DOMAIN fresh : Fingerprint(fresh[j]) = Fingerprint(fresh[k]) => j = k
           /\ \A i \in DOMAIN rows :
                 \/ Fingerprint(rows[i]) \in Known
                 \/ \E k \in DOMAIN fresh : Fingerprint(fresh[k]) = Fingerprint(rows[i])
<1> DEFINE P(i) == Fingerprint(rows[i])
           isNew == {i \in DOMAIN rows : P(i) \notin Known \cup {P(j) : j \in 1..i - 1}}
           before == {p \in isNew \X isNew : p[1] < p[2]}
           n == Cardinality(isNew)
           place == Sorted(isNew, before)
<1>1. DOMAIN rows = 1..Len(rows) /\ Len(rows) \in Nat
    OBVIOUS
<1>2. isNew \subseteq 1..Len(rows) /\ IsFiniteSet(isNew)
    BY Positions, FS_Subset
<1>3. fresh = [k \in 1..n |-> rows[place[k]]]
    BY DEF Fresh, Known
<1>4. \A i \in isNew : P(i) \notin Known /\ i \in DOMAIN rows /\ \A j \in 1..i - 1 : P(j) # P(i)
    OBVIOUS
<1>5. \A i \in DOMAIN rows : P(i) \notin Known /\ (\A j \in 1..i - 1 : P(j) # P(i)) => i \in isNew
    OBVIOUS
<1> HIDE DEF isNew
<1>6. IsOrder(isNew, before)
    <2>1. isNew \subseteq Int
        BY <1>2
    <2>2. \A i, j \in isNew : <<i, j>> \in before <=> i < j
        OBVIOUS
    <2> HIDE DEF before
    <2>3. QED BY <2>1, <2>2 DEF IsOrder
<1> HIDE DEF before
<1>7. n \in Nat /\ place \in Bijection(1..n, isNew)
    BY <1>2, <1>6, SortedSet
<1> HIDE DEF place, n, P
<1>8. /\ \A k \in 1..n : place[k] \in isNew
      /\ \A j, k \in 1..n : place[j] = place[k] => j = k
      /\ \A i \in isNew : \E k \in 1..n : place[k] = i
    BY <1>7 DEF Bijection, Injection, Surjection, IsInjective
<1>9. DOMAIN fresh = 1..n /\ \A k \in 1..n : fresh[k] = rows[place[k]] /\ Fingerprint(fresh[k]) = P(place[k])
    BY <1>3 DEF P
<1>10. \A i, j \in isNew : P(i) = P(j) => i = j
    <2> SUFFICES ASSUME NEW i \in isNew, NEW j \in isNew, P(i) = P(j), i # j PROVE FALSE
        OBVIOUS
    <2>1. i \in 1..Len(rows) /\ j \in 1..Len(rows)
        BY <1>2
    <2>2. CASE i < j
        <3>1. i \in 1..j - 1
            BY <1>1, <2>1, <2>2
        <3>2. QED BY <1>4, <3>1
    <2>3. CASE j < i
        <3>1. j \in 1..i - 1
            BY <1>1, <2>1, <2>3
        <3>2. QED BY <1>4, <3>1
    <2>4. i < j \/ j < i
        BY <1>1, <2>1
    <2>5. QED BY <2>2, <2>3, <2>4
<1>11. ASSUME NEW i \in DOMAIN rows, P(i) \notin Known PROVE \E j \in isNew : P(j) = P(i)
    <2> DEFINE same == {j \in 1..Len(rows) : P(j) = P(i)}
    <2>1. same \in SUBSET Int /\ IsFiniteSet(same) /\ same # {}
        <3>1. same \subseteq 1..Len(rows) /\ i \in same
            BY <1>1
        <3>2. IsFiniteSet(1..Len(rows))
            BY Positions
        <3>3. 1..Len(rows) \subseteq Int
            BY <1>1
        <3> HIDE DEF same
        <3>4. QED BY <3>1, <3>2, <3>3, FS_Subset
    <2>2. PICK j \in same : \A x \in same : j <= x
        <3> HIDE DEF same
        <3>1. QED BY <2>1, Extremes
    <2>3. j \in 1..Len(rows) /\ P(j) = P(i)
        OBVIOUS
    <2>4. \A x \in 1..j - 1 : P(x) # P(j)
        <3> SUFFICES ASSUME NEW x \in 1..j - 1, P(x) = P(j) PROVE FALSE
            OBVIOUS
        <3>1. x \in 1..Len(rows) /\ ~(j <= x)
            BY <1>1, <2>3
        <3>2. x \in same
            BY <2>3, <3>1
        <3>3. QED BY <2>2, <3>1, <3>2
    <2>5. j \in isNew
        BY <1>1, <1>5, <1>11, <2>3, <2>4
    <2>6. QED BY <2>3, <2>5
<1>12. \A k \in DOMAIN fresh : (\E i \in DOMAIN rows : fresh[k] = rows[i]) /\ Fingerprint(fresh[k]) \notin Known
    BY <1>4, <1>8, <1>9
<1>13. \A j, k \in DOMAIN fresh : Fingerprint(fresh[j]) = Fingerprint(fresh[k]) => j = k
    BY <1>8, <1>9, <1>10
<1>14. ASSUME NEW i \in DOMAIN rows, Fingerprint(rows[i]) \notin Known
       PROVE  \E k \in DOMAIN fresh : Fingerprint(fresh[k]) = Fingerprint(rows[i])
    <2>1. P(i) \notin Known /\ P(i) = Fingerprint(rows[i])
        BY <1>14 DEF P
    <2>2. PICK j \in isNew : P(j) = P(i)
        BY <1>11, <2>1
    <2>3. PICK k \in 1..n : place[k] = j
        BY <1>8
    <2>4. QED BY <1>9, <2>1, <2>2, <2>3
<1>15. QED BY <1>12, <1>13, <1>14

(* The transaction that a row becomes. *)
PostedRow(x, row) ==
    /\ x.day = DayOf(row.time) /\ x.text = row.text /\ x.amount = row.amount
    /\ x.direction = row.direction /\ x.balance = row.balance /\ x.batch = NextBatch
    /\ x.balance \in Int /\ x.account = Account

LEMMA InsertedRows ==
    ASSUME transactions \in Seq(Row), BookOpen, NEW rows \in Seq(TheLine),
           NEW fresh, fresh = Fresh(rows), NEW after, after = InsertTransactions(rows)
    PROVE  /\ Len(fresh) \in Nat /\ DOMAIN fresh = 1..Len(fresh)
           /\ after \in Seq(Row) /\ Len(after) = Len(transactions) + Len(fresh)
           /\ \A t \in 1..Len(transactions) : after[t] = transactions[t]
           /\ \A k \in 1..Len(fresh) :
                 PostedRow(after[Len(transactions) + k], fresh[k])
<1> DEFINE RowOf(row) == [account |-> Account, day |-> DayOf(row.time), amount |-> row.amount,
                          direction |-> row.direction, text |-> row.text, balance |-> row.balance,
                          currency |-> StatementCurrency(setup.provider, setup.named), batch |-> NextBatch]
           added == [k \in DOMAIN fresh |-> RowOf(fresh[k])]
<1>1. fresh \in Seq(TheLine) /\ DOMAIN fresh = 1..Len(fresh) /\ Len(fresh) \in Nat
    BY FreshType
<1>2. after \in Seq(Row) /\ Len(after) = Len(transactions) + Len(fresh)
    BY InsertedType
<1>3. after = transactions \o added
    BY DEF InsertTransactions
<1>4. added = [k \in 1..Len(fresh) |-> RowOf(fresh[k])]
    BY <1>1
<1> HIDE DEF added
<1>5. \A k \in 1..Len(fresh) : added[k] = RowOf(fresh[k])
    <2> HIDE DEF RowOf
    <2> QED BY <1>4
<1>6. \A k \in 1..Len(fresh) : fresh[k].balance \in Int
    <2>1. \A k \in 1..Len(fresh) : fresh[k] \in TheLine
        BY <1>1
    <2>2. QED BY <2>1 DEF TheLine, Line
<1>7. /\ \A t \in 1..Len(transactions) : after[t] = transactions[t]
      /\ \A k \in 1..Len(fresh) : after[Len(transactions) + k] = added[k]
    <2>1. \E Y : added \in Seq(Y)
        <3>1. added \in Seq({RowOf(fresh[k]) : k \in 1..Len(fresh)})
            <4> HIDE DEF RowOf
            <4> QED BY <1>1, <1>4
        <3>2. QED BY <3>1
    <2>2. PICK Y : added \in Seq(Y)
        BY <2>1
    <2>3. Len(added) = Len(fresh)
        <3> HIDE DEF RowOf
        <3> QED BY <1>1, <1>4
    <2>4. transactions \in Seq(Row \cup Y) /\ added \in Seq(Row \cup Y)
        BY <2>2
    <2>5. QED BY <1>1, <1>3, <2>3, <2>4
<1>8. ASSUME NEW k \in 1..Len(fresh), NEW x, x = after[Len(transactions) + k], NEW row, row = fresh[k]
      PROVE  PostedRow(x, row)
    <2>1. x = RowOf(row) /\ row.balance \in Int
        BY <1>5, <1>6, <1>7, <1>8
    <2>2. QED BY <2>1 DEF PostedRow
<1> HIDE DEF RowOf
<1>9. QED BY <1>1, <1>2, <1>7, <1>8

-----------------------------------------------------------------------------
(* A transaction is the j-th movement, posted from a statement that begins *)
(* with first.                                                             *)
Shows(x, j, first, furniture, anchor) ==
    /\ x.day = DayOf(bank[j].time) /\ x.text = TextIn(first, furniture, j) /\ x.amount = Abs(bank[j].delta)
    /\ x.balance = LineOf(j).balance
    /\ \/ x.direction = LineOf(j).direction
       \/ setup.provider = "Mentor Sacco" /\ ~anchor /\ j = first /\ bank[j].delta < 0

ShownBy(x, m) == \E j \in m.first..m.last : Shows(x, j, m.first, m.furniture, m.anchor)

(* The fingerprint of a movement, in the statement of an import. *)
Mark(m, i) == <<TextIn(m.first, m.furniture, i), Abs(bank[i].delta)>>

PostedFrom(m) == \A i \in m.first..m.last : \E t \in Posted : Fingerprint(transactions[t]) = Mark(m, i)

(* What is posted are the movements that are covered, each once.           *)
Ledger ==
    /\ \A t \in Posted : \E k \in Accepted : ShownBy(transactions[t], imports[k])
    /\ \A k \in Accepted : PostedFrom(imports[k])
    /\ \A t, u \in Posted : Fingerprint(transactions[t]) = Fingerprint(transactions[u]) => t = u

LEMMA ShowsUnchanged ==
    ASSUME bank' = bank, setup' = setup
    PROVE  /\ \A x, m : ShownBy(x, m)' <=> ShownBy(x, m)
           /\ \A m, i : Mark(m, i)' = Mark(m, i)
<1>1. \A i : LineOf(i)' = LineOf(i)
    BY LeadingUnchanged
<1>5. \A first, furniture, i : TextIn(first, furniture, i)' = TextIn(first, furniture, i)
    BY DEF TextIn, Above
<1>2. \A m, i : Mark(m, i)' = Mark(m, i)
    BY <1>5 DEF Mark
<1>3. ASSUME NEW x, NEW m PROVE ShownBy(x, m)' <=> ShownBy(x, m)
    BY <1>1, <1>5 DEF ShownBy, Shows
<1>4. QED BY <1>2, <1>3

LEMMA LedgerKept ==
    ASSUME Ledger, bank' = bank, setup' = setup, Posted' = Posted,
           \A t \in Posted : transactions'[t] = transactions[t],
           Accepted' = Accepted, \A k \in Accepted : imports'[k] = imports[k]
    PROVE  Ledger'
<1>1. ASSUME NEW t \in Posted PROVE (\E k \in Accepted : ShownBy(transactions[t], imports[k]))'
    <2>1. PICK k \in Accepted : ShownBy(transactions[t], imports[k])
        BY DEF Ledger
    <2>2. PICK x : x = transactions[t]
        OBVIOUS
    <2>3. PICK m : m = imports[k]
        OBVIOUS
    <2>4. ShownBy(x, m)'
        BY <2>1, <2>2, <2>3, ShowsUnchanged
    <2>5. x = transactions'[t] /\ m = imports'[k] /\ k \in Accepted'
        BY <2>2, <2>3
    <2>6. QED BY <2>4, <2>5 DEF ShownBy
<1>2. ASSUME NEW k \in Accepted PROVE PostedFrom(imports[k])'
    <2>1. PICK m : m = imports[k]
        OBVIOUS
    <2>2. PostedFrom(m)
        BY <2>1 DEF Ledger
    <2>3. ASSUME NEW i \in m.first..m.last PROVE \E t \in Posted' : Fingerprint(transactions'[t]) = Mark(m, i)'
        <3>1. PICK t \in Posted : Fingerprint(transactions[t]) = Mark(m, i)
            BY <2>2 DEF PostedFrom
        <3>2. QED BY <3>1, ShowsUnchanged
    <2>4. PostedFrom(m)'
        BY <2>3 DEF PostedFrom
    <2>5. m = imports'[k]
        BY <2>1
    <2>6. QED BY <2>4, <2>5 DEF PostedFrom
<1>3. ASSUME NEW t \in Posted, NEW u \in Posted, Fingerprint(transactions'[t]) = Fingerprint(transactions'[u])
      PROVE  t = u
    BY <1>3 DEF Ledger
<1>4. QED BY <1>1, <1>2, <1>3 DEF Ledger

(* The table of transactions grows by m rows. *)
Grows(m) ==
    /\ transactions' \in Seq(Row) /\ Len(transactions') = Len(transactions) + m
    /\ \A t \in 1..Len(transactions) : transactions'[t] = transactions[t]

LEMMA PostedGrow ==
    ASSUME transactions \in Seq(Row), NEW m \in Nat, Grows(m),
           \A k \in 1..m : transactions'[Len(transactions) + k].balance \in Int
    PROVE  /\ Posted \subseteq 1..Len(transactions)
           /\ \A t \in Posted' : t \in Posted \/ \E k \in 1..m : t = Len(transactions) + k
           /\ \A t \in Posted : t \in Posted' /\ transactions'[t] = transactions[t]
           /\ \A k \in 1..m : Len(transactions) + k \in Posted'
           /\ Manual' = Manual
<1> DEFINE n == Len(transactions)
<1>1. n \in Nat /\ DOMAIN transactions = 1..n /\ DOMAIN transactions' = 1..n + m
    BY DEF Grows
<1>2. Posted = {t \in 1..n : transactions[t].balance # NoBalance}
    BY DEF Posted, Txn
<1>3. Posted' = {t \in 1..n + m : transactions'[t].balance # NoBalance}
    BY <1>1 DEF Posted, Txn
<1>4. \A t \in 1..n + m : t \in 1..n \/ \E k \in 1..m : t = n + k
    <2> SUFFICES ASSUME NEW t \in 1..n + m, t \notin 1..n PROVE \E k \in 1..m : t = n + k
        OBVIOUS
    <2>1. t - n \in 1..m /\ t = n + (t - n)
        BY <1>1
    <2>2. QED BY <2>1
<1>5. \A t \in 1..n : t \in 1..n + m /\ transactions'[t] = transactions[t]
    BY <1>1 DEF Grows
<1>6. \A k \in 1..m : n + k \in 1..n + m /\ n + k \notin 1..n /\ transactions'[n + k].balance # NoBalance
    <2>1. NoBalance \notin Int
        BY ReportsAssumption
    <2>2. \A k \in 1..m : n + k \in 1..n + m /\ n + k \notin 1..n
        BY <1>1
    <2>3. QED BY <2>1, <2>2
<1> HIDE DEF n
<1>7. \A t \in Posted' : t \in Posted \/ \E k \in 1..m : t = n + k
    BY <1>2, <1>3, <1>4, <1>5
<1>8. \A t \in Posted : t \in Posted' /\ transactions'[t] = transactions[t]
    BY <1>2, <1>3, <1>5
<1>9. \A k \in 1..m : n + k \in Posted'
    BY <1>3, <1>6
<1>10. Manual' = Manual
    <2>1. Manual = (1..n) \ Posted /\ Manual' = (1..n + m) \ Posted'
        BY <1>1 DEF Manual, Txn, n
    <2>2. QED BY <1>2, <1>3, <1>4, <1>5, <1>6, <2>1
<1>11. QED BY <1>2, <1>7, <1>8, <1>9, <1>10 DEF n

(* A statement that is accepted, and of which no line is lost. *)
LEMMA LedgerGrows ==
    ASSUME Ledger, BookOpen, transactions \in Seq(Row), imports \in Seq(Import), bank' = bank, setup' = setup,
           NEW first \in 1..Len(bank), NEW last \in first..Len(bank), NEW anchor \in BOOLEAN,
           NEW furniture \in Furniture, NEW import, import.first = first, import.last = last,
           import.anchor = anchor, import.furniture = furniture, import.accepted,
           imports' = Append(imports, import),
           NEW rows \in Seq(TheLine), TellsAll(rows, first, last, furniture, anchor),
           transactions' = InsertTransactions(rows)
    PROVE  /\ Ledger'
           /\ \A t \in Posted' : t \in Posted \/ ShownBy(transactions'[t], import)
<1> DEFINE n == Len(transactions)
           last_ == Len(imports) + 1
<1>1. PICK fresh : fresh = Fresh(rows)
    OBVIOUS
<1>2. PICK after : after = InsertTransactions(rows)
    OBVIOUS
<1>3. /\ Len(fresh) \in Nat /\ DOMAIN fresh = 1..Len(fresh) /\ n \in Nat
      /\ after \in Seq(Row) /\ Len(after) = n + Len(fresh)
      /\ \A t \in 1..n : after[t] = transactions[t]
    BY <1>1, <1>2, InsertedRows
<1>4. \A k \in 1..Len(fresh) : PostedRow(after[n + k], fresh[k])
    BY <1>1, <1>2, InsertedRows
<1>5. /\ \A k \in 1..Len(fresh) : /\ \E i \in DOMAIN rows : fresh[k] = rows[i]
                                  /\ Fingerprint(fresh[k]) \notin Known
      /\ \A j, k \in 1..Len(fresh) : Fingerprint(fresh[j]) = Fingerprint(fresh[k]) => j = k
      /\ \A i \in DOMAIN rows :
            \/ Fingerprint(rows[i]) \in Known
            \/ \E k \in 1..Len(fresh) : Fingerprint(fresh[k]) = Fingerprint(rows[i])
    <2>1. /\ \A k \in DOMAIN fresh : /\ \E i \in DOMAIN rows : fresh[k] = rows[i]
                                      /\ Fingerprint(fresh[k]) \notin Known
          /\ \A j, k \in DOMAIN fresh : Fingerprint(fresh[j]) = Fingerprint(fresh[k]) => j = k
          /\ \A i \in DOMAIN rows :
                \/ Fingerprint(rows[i]) \in Known
                \/ \E k \in DOMAIN fresh : Fingerprint(fresh[k]) = Fingerprint(rows[i])
        BY <1>1, FreshRows
    <2>2. QED BY <1>3, <2>1
<1>6. after = transactions'
    BY <1>2
<1>7. /\ Posted \subseteq 1..n
      /\ \A t \in Posted' : t \in Posted \/ \E k \in 1..Len(fresh) : t = n + k
      /\ \A t \in Posted : t \in Posted' /\ transactions'[t] = transactions[t]
      /\ \A k \in 1..Len(fresh) : n + k \in Posted'
    <2>1. transactions' = after /\ \A k \in 1..Len(fresh) : transactions'[n + k].balance \in Int
        BY <1>4, <1>6 DEF PostedRow
    <2>2. Grows(Len(fresh))
        BY <1>3, <2>1 DEF Grows
    <2>3. QED BY <1>3, <2>1, <2>2, PostedGrow
<1> HIDE DEF n
<1>8. /\ \A k \in Accepted : k \in Accepted' /\ imports'[k] = imports[k]
      /\ last_ \in Accepted' /\ imports'[last_] = import
      /\ \A k \in Accepted' : k \in Accepted \/ k = last_
    <2>1. DOMAIN imports = 1..Len(imports) /\ Len(imports) \in Nat
        OBVIOUS
    <2>2. /\ DOMAIN imports' = 1..last_
          /\ \A k \in 1..Len(imports) : imports'[k] = imports[k]
          /\ imports'[last_] = import
        OBVIOUS
    <2>3. \A k \in 1..last_ : k \in 1..Len(imports) \/ k = last_
        BY <2>1
    <2>4. (\A k \in 1..Len(imports) : k \in 1..last_) /\ last_ \in 1..last_
        BY <2>1
    <2> HIDE DEF last_
    <2>5. QED BY <2>1, <2>2, <2>3, <2>4 DEF Accepted
<1> HIDE DEF last_
<1>9. \A k \in 1..Len(fresh) : Fingerprint(after[n + k]) = Fingerprint(fresh[k])
    BY <1>4 DEF Fingerprint, PostedRow
<1>10. ASSUME NEW t \in Posted', t \notin Posted PROVE ShownBy(transactions'[t], import)
    <2>1. PICK k \in 1..Len(fresh) : t = n + k
        BY <1>7, <1>10
    <2>2. PICK i \in DOMAIN rows : fresh[k] = rows[i]
        BY <1>5
    <2>3. PICK j \in first..last : Tells(fresh[k], j, first, furniture, anchor)
        BY <2>2 DEF TellsAll
    <2>4. Shows(transactions'[t], j, first, furniture, anchor)
        BY <1>4, <1>6, <2>1, <2>3 DEF Shows, Tells, PostedRow
    <2>5. QED BY <2>3, <2>4 DEF ShownBy
<1>11. ASSUME NEW t \in Posted' PROVE (\E k \in Accepted : ShownBy(transactions[t], imports[k]))'
    <2>1. PICK x : x = transactions'[t]
        OBVIOUS
    <2>2. \E k \in Accepted' : \E m : m = imports'[k] /\ ShownBy(x, m)
        <3>1. CASE t \in Posted
            <4>1. PICK k \in Accepted : ShownBy(transactions[t], imports[k])
                BY <3>1 DEF Ledger
            <4>2. QED BY <1>7, <1>8, <2>1, <3>1, <4>1
        <3>2. CASE t \notin Posted
            BY <1>8, <1>10, <2>1, <3>2
        <3>3. QED BY <3>1, <3>2
    <2>3. PICK k \in Accepted' : \E m : m = imports'[k] /\ ShownBy(x, m)
        BY <2>2
    <2>4. PICK m : m = imports'[k] /\ ShownBy(x, m)
        BY <2>3
    <2>5. ShownBy(x, m)'
        BY <2>4, ShowsUnchanged
    <2>6. QED BY <2>1, <2>4, <2>5 DEF ShownBy
<1>12. ASSUME NEW k \in Accepted' PROVE PostedFrom(imports[k])'
    <2>1. PICK m : m = imports'[k]
        OBVIOUS
    <2>2. ASSUME NEW i \in m.first..m.last PROVE \E t \in Posted' : Fingerprint(transactions'[t]) = Mark(m, i)'
        <3>0. Mark(m, i)' = Mark(m, i)
            BY ShowsUnchanged
        <3>1. CASE k \in Accepted
            <4>1. PostedFrom(m)
                BY <1>8, <2>1, <3>1 DEF Ledger
            <4>2. PICK t \in Posted : Fingerprint(transactions[t]) = Mark(m, i)
                BY <4>1 DEF PostedFrom
            <4>3. QED BY <1>7, <3>0, <4>2
        <3>2. CASE k \notin Accepted
            <4>1. m = import /\ i \in first..last
                BY <1>8, <2>1, <3>2
            <4>2. PICK r \in DOMAIN rows : Tells(rows[r], i, first, furniture, anchor)
                BY <4>1 DEF TellsAll
            <4>3. Fingerprint(rows[r]) = Mark(m, i)
                <5>1. m.first = first /\ m.furniture = furniture
                    BY <4>1
                <5>2. QED BY <4>2, <5>1 DEF Tells, Fingerprint, Mark
            <4>4. CASE Fingerprint(rows[r]) \in Known
                <5>1. PICK t \in Posted : Fingerprint(transactions[t]) = Mark(m, i)
                    BY <4>3, <4>4 DEF Known
                <5>2. QED BY <1>7, <3>0, <5>1
            <4>5. CASE Fingerprint(rows[r]) \notin Known
                <5>1. PICK f \in 1..Len(fresh) : Fingerprint(fresh[f]) = Mark(m, i)
                    BY <1>5, <4>3, <4>5
                <5>2. n + f \in Posted' /\ Fingerprint(transactions'[n + f]) = Mark(m, i)
                    BY <1>6, <1>7, <1>9, <5>1
                <5>3. QED BY <3>0, <5>2
            <4>6. QED BY <4>4, <4>5
        <3>3. QED BY <3>1, <3>2
    <2>3. PostedFrom(m)'
        BY <2>2 DEF PostedFrom
    <2>4. QED BY <2>1, <2>3 DEF PostedFrom
<1>13. ASSUME NEW t \in Posted', NEW u \in Posted', Fingerprint(after[t]) = Fingerprint(after[u])
       PROVE  t = u
    <2>1. \A v \in Posted : Fingerprint(after[v]) \in Known
        BY <1>6, <1>7 DEF Known
    <2>2. \A k \in 1..Len(fresh) : Fingerprint(after[n + k]) \notin Known
        BY <1>5, <1>9
    <2>3. CASE t \in Posted /\ u \in Posted
        BY <1>6, <1>7, <1>13, <2>3 DEF Ledger
    <2>4. CASE t \notin Posted /\ u \notin Posted
        <3>1. PICK j \in 1..Len(fresh) : t = n + j
            BY <1>7, <2>4
        <3>2. PICK k \in 1..Len(fresh) : u = n + k
            BY <1>7, <2>4
        <3>3. j = k
            BY <1>5, <1>9, <1>13, <3>1, <3>2
        <3>4. QED BY <3>1, <3>2, <3>3
    <2>5. CASE t \in Posted /\ u \notin Posted
        BY <1>7, <1>13, <2>1, <2>2, <2>5
    <2>6. CASE t \notin Posted /\ u \in Posted
        BY <1>7, <1>13, <2>1, <2>2, <2>6
    <2>7. QED BY <2>3, <2>4, <2>5, <2>6
<1>14. QED BY <1>6, <1>11, <1>12, <1>13, <1>10 DEF Ledger

-----------------------------------------------------------------------------
LedgerHolds == Faultless => Ledger

LEMMA AcceptedKept ==
    ASSUME imports' = imports PROVE Accepted' = Accepted /\ (Faultless' <=> Faultless)
BY DEF Accepted, Faultless

LEMMA LedgerAlways ==
    ASSUME Typed, LedgerHolds, [Next]_figures PROVE LedgerHolds'
<1>0. /\ BookOpen /\ imports \in Seq(Import) /\ transactions \in Seq(Row)
      /\ DOMAIN bank = 1..Len(bank) /\ Len(bank) \in Nat
    BY BookType DEF Typed
<1>1. ASSUME NEW first \in DOMAIN bank, NEW anchor \in BOOLEAN, NEW furniture \in setup.furniture,
             NEW last \in first..Len(bank), NEW lost \in 0..last - first + 1, ImportStatement(first, last, lost, anchor, furniture), Faultless'
      PROVE  Ledger'
    <2> DEFINE rows == Parse(setup.provider, StatementOf(first, last, lost, anchor, furniture))
               import == [first |-> first, last |-> last, lost |-> lost, anchor |-> anchor,
                          furniture |-> furniture, accepted |-> rows # None,
                          opening |-> IF rows = None THEN None ELSE DerivedOpening(rows)]
               place == Len(imports) + 1
    <2>1. /\ imports' = Append(imports, import) /\ bank' = bank /\ setup' = setup
          /\ transactions' = IF rows = None THEN transactions ELSE InsertTransactions(rows)
        BY <1>1 DEF ImportStatement
    <2>2. /\ import.first = first /\ import.last = last /\ import.anchor = anchor /\ import.lost = lost
          /\ import.furniture = furniture /\ import.accepted = (rows # None)
        OBVIOUS
    <2>20. furniture \in Furniture
        BY <1>0, FurnitureType
    <2>3. rows # None => rows \in Seq(TheLine)
        BY <1>0, <2>20, ParsedType
    <2> HIDE DEF import, rows
    <2>4. /\ DOMAIN imports' = 1..place /\ DOMAIN imports = 1..Len(imports) /\ Len(imports) \in Nat
          /\ \A k \in 1..Len(imports) : k \in 1..place /\ imports'[k] = imports[k]
          /\ place \in 1..place /\ imports'[place] = import
        BY <1>0, <2>1
    <2>5. \A k \in 1..place : k \in 1..Len(imports) \/ k = place
        BY <2>4
    <2> HIDE DEF place
    <2>6. /\ \A k \in Accepted : k \in Accepted' /\ imports'[k] = imports[k]
          /\ \A k \in Accepted' : k \in Accepted \/ k = place
          /\ place \in Accepted' <=> import.accepted
          /\ place \in Accepted => import.accepted
        BY <2>4, <2>5 DEF Accepted
    <2>7. Ledger
        <3>1. \A k \in Accepted : imports[k].lost = 0
            BY <1>1, <2>6 DEF Faultless
        <3>2. QED BY <3>1 DEF LedgerHolds, Faultless
    <2>8. CASE rows = None
        <3>1. Accepted' = Accepted
            BY <2>2, <2>6, <2>8
        <3>2. transactions' = transactions /\ Posted' = Posted
            BY <2>1, <2>8 DEF Posted, Txn
        <3>3. QED BY <2>1, <2>6, <2>7, <3>1, <3>2, LedgerKept
    <2>9. CASE rows # None
        <3>1. lost = 0
            BY <1>1, <2>2, <2>4, <2>6, <2>9 DEF Faultless
        <3>2. TellsAll(rows, first, last, furniture, anchor)
            BY <1>0, <2>20, <2>9, <3>1, ParsedTellsAll DEF rows
        <3>3. transactions' = InsertTransactions(rows) /\ import.accepted
            BY <2>1, <2>2, <2>9
        <3>4. QED BY <1>0, <2>20, <2>1, <2>2, <2>3, <2>7, <2>9, <3>2, <3>3, LedgerGrows
    <2>10. QED BY <2>8, <2>9
<1>2. ASSUME NEW account \in Accounts, NEW day \in Days, NEW direction \in Directions,
             EnterManually(account, day, direction), Faultless'
      PROVE  Ledger'
    <2> DEFINE row == [account |-> account, day |-> day, amount |-> ManualAmount, direction |-> direction,
                       text |-> None, balance |-> NoBalance, currency |-> currencyOf[account],
                       batch |-> NextBatch]
               n == Len(transactions)
    <2>1. /\ transactions' = Append(transactions, row)
          /\ setup' = setup /\ bank' = bank /\ imports' = imports
        BY <1>2 DEF EnterManually
    <2>2. row.balance = NoBalance
        OBVIOUS
    <2> HIDE DEF row
    <2>3. /\ DOMAIN transactions' = 1..n + 1 /\ DOMAIN transactions = 1..n /\ n \in Nat
          /\ \A t \in 1..n : t \in 1..n + 1 /\ transactions'[t] = transactions[t]
          /\ transactions'[n + 1] = row /\ n + 1 \notin 1..n
          /\ \A t \in 1..n + 1 : t \in 1..n \/ t = n + 1
        <3>1. n \in Nat /\ DOMAIN transactions = 1..n
            BY <1>0
        <3>2. DOMAIN transactions' = 1..n + 1 /\ transactions'[n + 1] = row
            BY <1>0, <2>1
        <3>3. \A t \in 1..n : transactions'[t] = transactions[t]
            BY <1>0, <2>1
        <3> HIDE DEF n
        <3>4. QED BY <3>1, <3>2, <3>3
    <2> HIDE DEF n
    <2>4. Posted' = Posted /\ \A t \in Posted : transactions'[t] = transactions[t]
        BY <2>2, <2>3 DEF Posted, Txn
    <2>5. Ledger /\ Accepted' = Accepted
        BY <1>2, <2>1, AcceptedKept DEF LedgerHolds
    <2>6. QED BY <2>1, <2>4, <2>5, LedgerKept
<1>3. ASSUME UNCHANGED <<setup, bank, imports, transactions>>, Faultless' PROVE Ledger'
    <2>1. Ledger /\ Accepted' = Accepted
        BY <1>3, AcceptedKept DEF LedgerHolds
    <2>2. Posted' = Posted
        BY <1>3 DEF Posted, Txn
    <2>3. QED BY <1>3, <2>1, <2>2, LedgerKept
<1>4. QED
    <2> SUFFICES ASSUME Faultless' PROVE Ledger'
        BY DEF LedgerHolds
    <2>1. CASE UNCHANGED figures
        BY <1>3, <2>1 DEF figures
    <2>2. CASE Next
        <3>1. ASSUME NEW t, NEW target, NEW amount, NEW source, NEW seen,
                     Allocate(t, target, amount, source, seen)
              PROVE  Ledger'
            BY <1>3, <3>1 DEF Allocate
        <3>2. QED BY <1>1, <1>2, <2>2, <3>1 DEF Next
    <2>3. QED BY <2>1, <2>2

LEMMA ReadingsAre ==
    /\ \A k \in Accepted : \A i \in imports[k].first..imports[k].last :
          <<i, TextIn(imports[k].first, imports[k].furniture, i)>> \in Readings
    /\ \A r \in Readings : \E k \in Accepted : \E i \in imports[k].first..imports[k].last :
          r = <<i, TextIn(imports[k].first, imports[k].furniture, i)>>
    /\ \A m, i : MarkOf(<<i, TextIn(m.first, m.furniture, i)>>) = Mark(m, i)
<1>1. \A m, i : MarkOf(<<i, TextIn(m.first, m.furniture, i)>>) = Mark(m, i)
    BY DEF MarkOf, Mark
<1>2. QED BY <1>1 DEF Readings

(* A transaction's fingerprint is a reading's, and each reading's is there. *)
LEMMA PostedReadings ==
    ASSUME Ledger
    PROVE  /\ \A t \in Posted : \E r \in Readings : Fingerprint(transactions[t]) = MarkOf(r)
           /\ \A r \in Readings : \E t \in Posted : Fingerprint(transactions[t]) = MarkOf(r)
<1>1. ASSUME NEW t \in Posted PROVE \E r \in Readings : Fingerprint(transactions[t]) = MarkOf(r)
    <2>1. PICK k \in Accepted : ShownBy(transactions[t], imports[k])
        BY DEF Ledger
    <2>2. PICK j \in imports[k].first..imports[k].last :
              Shows(transactions[t], j, imports[k].first, imports[k].furniture, imports[k].anchor)
        BY <2>1 DEF ShownBy
    <2>3. Fingerprint(transactions[t]) = Mark(imports[k], j)
        BY <2>2 DEF Shows, Fingerprint, Mark
    <2>4. QED BY <2>3, ReadingsAre
<1>2. ASSUME NEW r \in Readings PROVE \E t \in Posted : Fingerprint(transactions[t]) = MarkOf(r)
    <2>0. PICK k \in Accepted : \E i \in imports[k].first..imports[k].last :
              r = <<i, TextIn(imports[k].first, imports[k].furniture, i)>>
        BY ReadingsAre
    <2>1. PICK i \in imports[k].first..imports[k].last :
              r = <<i, TextIn(imports[k].first, imports[k].furniture, i)>>
        BY <2>0
    <2>2. PICK t \in Posted : Fingerprint(transactions[t]) = Mark(imports[k], i)
        BY DEF Ledger, PostedFrom
    <2>3. MarkOf(r) = Mark(imports[k], i)
        BY <2>1, ReadingsAre
    <2>4. QED BY <2>2, <2>3
<1>3. QED BY <1>1, <1>2

(* What is posted is as many rows as the readings have fingerprints. *)
LEMMA PostedCount ==
    ASSUME Typed, Ledger
    PROVE  Cardinality(Posted) = Cardinality({MarkOf(r) : r \in Readings})
<1> DEFINE marks == {MarkOf(r) : r \in Readings}
           f == [t \in Posted |-> Fingerprint(transactions[t])]
<1>1. f \in [Posted -> marks]
    BY PostedReadings
<1>2. \A p \in marks : \E t \in Posted : f[t] = p
    <2> SUFFICES ASSUME NEW r \in Readings PROVE \E t \in Posted : f[t] = MarkOf(r)
        OBVIOUS
    <2>1. QED BY PostedReadings
<1>3. \A t, u \in Posted : f[t] = f[u] => t = u
    BY DEF Ledger
<1> HIDE DEF f, marks
<1>4. ExistsBijection(Posted, marks)
    BY <1>1, <1>2, <1>3 DEF ExistsBijection, Bijection, Injection, Surjection, IsInjective
<1>5. IsFiniteSet(Posted)
    <2>1. Posted \subseteq 1..Len(transactions) /\ IsFiniteSet(1..Len(transactions))
        BY Positions DEF Typed, Posted, Txn
    <2>2. QED BY <2>1, FS_Subset
<1>6. QED BY <1>4, <1>5, FS_Bijection DEF marks

(* Whatever statements were imported, in whatever order and however they   *)
(* overlap, a movement is posted once for each text that it was read with, *)
(* with its day, amount and direction, and nothing else is: process_job    *)
(* and the fingerprints of insert_transactions, for every book.  With all  *)
(* layouts but Equity Bank's it has one text, whatever it is printed in.   *)
THEOREM MovementsPostedOnce == Spec => []PostedAreMovements
<1>1. Init => LedgerHolds
    BY DEF Init, LedgerHolds, Ledger, Accepted, Posted, Txn
<1>2. Typed /\ LedgerHolds /\ [Next]_figures => LedgerHolds'
    BY LedgerAlways
<1>3. ASSUME Typed, LedgerHolds PROVE PostedAreMovements
    <2> SUFFICES ASSUME Faultless PROVE
            /\ Cardinality(Posted) = Cardinality({MarkOf(r) : r \in Readings})
            /\ \A r \in Readings :
                   \/ \E q \in Readings : q[1] # r[1] /\ MarkOf(q) = MarkOf(r)
                   \/ \E k \in Accepted : Misread(k) /\ imports[k].first = r[1]
                   \/ Cardinality(PostedAs(r)) = 1
        BY DEF PostedAreMovements
    <2>0. Ledger
        BY <1>3 DEF LedgerHolds
    <2>1. ASSUME NEW r \in Readings, \A q \in Readings : ~(q[1] # r[1] /\ MarkOf(q) = MarkOf(r)),
                 \A k \in Accepted : ~(Misread(k) /\ imports[k].first = r[1])
          PROVE  Cardinality(PostedAs(r)) = 1
        <3>1. PICK t \in Posted : Fingerprint(transactions[t]) = MarkOf(r)
            BY <2>0, PostedReadings
        <3>2. PICK k \in Accepted : ShownBy(transactions[t], imports[k])
            BY <2>0 DEF Ledger
        <3>3. PICK j \in imports[k].first..imports[k].last :
                  Shows(transactions[t], j, imports[k].first, imports[k].furniture, imports[k].anchor)
            BY <3>2 DEF ShownBy
        <3>4. PICK q \in Readings : q[1] = j /\ MarkOf(q) = Mark(imports[k], j)
            BY ReadingsAre
        <3>5. Fingerprint(transactions[t]) = Mark(imports[k], j)
            BY <3>3 DEF Shows, Fingerprint, Mark
        <3>6. j = r[1]
            BY <2>1, <3>1, <3>4, <3>5
        <3>7. transactions[t].direction = LineOf(r[1]).direction
            BY <2>1, <3>2, <3>3, <3>6 DEF Shows, Misread
        <3>8. \A i : LineOf(i).time = bank[i].time /\ LineOf(i).amount = Abs(bank[i].delta)
            BY DEF LineOf
        <3>9. \A u \in Posted : Fingerprint(transactions[u]) = MarkOf(r)
                 <=> transactions[u].text = r[2] /\ transactions[u].amount = LineOf(r[1]).amount
            BY <3>8 DEF Fingerprint, MarkOf
        <3>10. t \in PostedAs(r)
            BY <3>1, <3>3, <3>6, <3>7, <3>8, <3>9 DEF PostedAs, Shows
        <3>11. \A u \in PostedAs(r) : u = t
            <4> SUFFICES ASSUME NEW u \in PostedAs(r) PROVE u = t
                OBVIOUS
            <4>1. u \in Posted /\ Fingerprint(transactions[u]) = MarkOf(r)
                BY <3>9 DEF PostedAs
            <4>2. QED BY <2>0, <3>1, <4>1 DEF Ledger
        <3>12. PostedAs(r) = {t}
            BY <3>10, <3>11
        <3>13. QED BY <3>12, FS_Singleton
    <2>2. QED BY <1>3, <2>0, <2>1, PostedCount
<1>4. QED BY <1>1, <1>2, <1>3, FiguresTyped, PTL DEF Spec

-----------------------------------------------------------------------------
BatchOf(t) == transactions[t].batch

(* Batches are in the order of the table, an entry made by hand has one of *)
(* its own, and what is posted is posted to the account.                   *)
Batched ==
    /\ \A t \in Txn : BatchOf(t) < NextBatch
    /\ \A t, u \in Txn : t < u => BatchOf(t) <= BatchOf(u)
    /\ \A t \in Manual, u \in Txn : BatchOf(t) = BatchOf(u) => t = u
    /\ \A t \in Posted : transactions[t].account = Account

LEMMA BatchNumbers ==
    ASSUME transactions \in Seq(Row)
    PROVE  /\ Txn = 1..Len(transactions) /\ Len(transactions) \in Nat /\ NextBatch \in Nat
           /\ \A t \in Txn : BatchOf(t) \in Nat /\ transactions[t].account \in Accounts /\ transactions[t].day \in Days
                             /\ AmountOf(t) \in Nat /\ transactions[t].direction \in Directions
<1>1. Txn = 1..Len(transactions) /\ \A t \in 1..Len(transactions) : transactions[t] \in Row
    BY DEF Txn
<1>2. QED BY <1>1, BatchType DEF Row, BatchOf, AmountOf

(* One INSERT takes one new batch, if it inserts anything. *)
LEMMA BatchesGrow ==
    ASSUME transactions \in Seq(Row), \A t \in Txn : BatchOf(t) < NextBatch,
           NEW m \in Nat, Grows(m), \A k \in 1..m : transactions'[Len(transactions) + k].batch = NextBatch
    PROVE  NextBatch' = IF m = 0 THEN NextBatch ELSE NextBatch + 1
<1> DEFINE n == Len(transactions)
           batches == {transactions[t].batch : t \in Txn}
           later == {transactions'[t].batch : t \in Txn'}
<1>1. /\ Txn = 1..n /\ n \in Nat /\ Txn' = 1..n + m /\ NextBatch \in Nat
      /\ IsFiniteSet(batches) /\ NextBatch = 1 + Cardinality(batches) /\ NextBatch' = 1 + Cardinality(later)
    <2>1. DOMAIN transactions' = 1..n + m
        BY DEF Grows
    <2>2. NextBatch' = 1 + Cardinality(later)
        BY DEF NextBatch
    <2>3. QED BY <2>1, <2>2, BatchType, BatchNumbers DEF Txn
<1>2. /\ \A t \in 1..n : t \in 1..n + m /\ transactions'[t].batch = transactions[t].batch
      /\ \A k \in 1..m : n + k \in 1..n + m /\ transactions'[n + k].batch = NextBatch
    <2>1. n \in Nat
        BY <1>1
    <2>2. \A t \in 1..n : t \in 1..n + m
        BY <2>1
    <2>3. \A k \in 1..m : n + k \in 1..n + m
        BY <2>1
    <2>4. \A t \in 1..n : transactions'[t] = transactions[t]
        BY DEF Grows
    <2>5. QED BY <2>2, <2>3, <2>4
<1>3. \A t \in 1..n + m : t \in 1..n \/ \E k \in 1..m : t = n + k
    <2> SUFFICES ASSUME NEW t \in 1..n + m, t \notin 1..n PROVE \E k \in 1..m : t = n + k
        OBVIOUS
    <2>1. t - n \in 1..m /\ t = n + (t - n)
        BY <1>1
    <2>2. QED BY <2>1
<1>4. NextBatch \notin batches
    BY <1>1 DEF BatchOf
<1> HIDE DEF n
<1>5. CASE m = 0
    <2>1. \A k : k \notin 1..m
        BY <1>5
    <2>2. later = batches
        BY <1>1, <1>2, <1>3, <2>1
    <2>3. QED BY <1>1, <1>5, <2>2
<1>6. CASE m # 0
    <2>1. 1 \in 1..m
        BY <1>6
    <2>2. later = batches \cup {NextBatch}
        <3>1. ASSUME NEW t \in 1..n + m PROVE transactions'[t].batch \in batches \cup {NextBatch}
            <4>1. \A u \in 1..n : transactions[u].batch \in batches
                BY <1>1
            <4> HIDE DEF batches
            <4>2. CASE t \in 1..n
                BY <1>2, <4>1, <4>2
            <4>3. CASE t \notin 1..n
                BY <1>2, <1>3, <4>3
            <4>4. QED BY <4>2, <4>3
        <3>2. ASSUME NEW t \in 1..n PROVE transactions[t].batch \in later
            BY <1>1, <1>2
        <3>3. NextBatch \in later
            BY <1>1, <1>2, <2>1
        <3>4. later \subseteq batches \cup {NextBatch}
            BY <1>1, <3>1
        <3>5. batches \subseteq later
            BY <1>1, <3>2
        <3>6. QED BY <3>3, <3>4, <3>5
    <2> HIDE DEF batches, later
    <2>3. Cardinality(later) = Cardinality(batches) + 1
        BY <1>1, <1>4, <2>2, FS_AddElement
    <2>4. Cardinality(batches) \in Nat
        BY <1>1, FS_CardinalityType
    <2>5. QED BY <1>1, <1>6, <2>3, <2>4
<1>7. QED BY <1>5, <1>6

(* What an INSERT does to the batches. *)
LEMMA BatchedGrow ==
    ASSUME transactions \in Seq(Row), Batched, NEW m \in Nat, Grows(m),
           \A k \in 1..m : transactions'[Len(transactions) + k].batch = NextBatch
    PROVE  /\ \A t \in Txn' : transactions'[t].batch < NextBatch'
           /\ \A t, u \in Txn' : t < u => transactions'[t].batch <= transactions'[u].batch
           /\ \A t \in Txn : transactions'[t].batch = BatchOf(t) /\ transactions'[t].batch < NextBatch
<1> DEFINE n == Len(transactions)
           b == [t \in 1..n + m |-> transactions'[t].batch]
<1>1. /\ Txn = 1..n /\ n \in Nat /\ Txn' = 1..n + m /\ NextBatch \in Nat
      /\ NextBatch' = IF m = 0 THEN NextBatch ELSE NextBatch + 1
      /\ \A t \in 1..n : transactions[t].batch \in Nat /\ transactions[t].batch < NextBatch
      /\ \A t, u \in 1..n : t < u => transactions[t].batch <= transactions[u].batch
    <2>1. DOMAIN transactions' = 1..n + m
        BY DEF Grows
    <2>2. Txn' = 1..n + m
        BY <2>1 DEF Txn
    <2>3. \A t \in Txn : BatchOf(t) < NextBatch
        BY DEF Batched
    <2>4. NextBatch' = IF m = 0 THEN NextBatch ELSE NextBatch + 1
        BY <2>3, BatchesGrow
    <2>5. QED BY <2>2, <2>4, BatchNumbers DEF Batched, BatchOf
<1>2. /\ \A t \in 1..n : t \in 1..n + m /\ b[t] = transactions[t].batch
      /\ \A k \in 1..m : n + k \in 1..n + m /\ b[n + k] = NextBatch
    BY <1>1 DEF Grows, BatchOf
<1>3. \A t \in 1..n + m : transactions'[t].batch = b[t]
    BY DEF BatchOf
<1>4. \A t \in 1..n + m : (t \in 1..n /\ b[t] = transactions[t].batch) \/ (t \notin 1..n /\ m # 0 /\ b[t] = NextBatch)
    <2> SUFFICES ASSUME NEW t \in 1..n + m, t \notin 1..n PROVE m # 0 /\ b[t] = NextBatch
        BY <1>2
    <2>1. t - n \in 1..m /\ t = n + (t - n) /\ m # 0
        BY <1>1
    <2>2. QED BY <1>2, <2>1
<1> HIDE DEF b
<1>5. ASSUME NEW t \in 1..n + m PROVE b[t] < NextBatch'
    BY <1>1, <1>4
<1>6. ASSUME NEW t \in 1..n + m, NEW u \in 1..n + m, t < u PROVE b[t] <= b[u]
    <2>1. CASE u \in 1..n
        <3>1. t \in 1..n
            BY <1>1, <1>6, <2>1
        <3>2. QED BY <1>1, <1>2, <1>6, <2>1, <3>1
    <2>2. CASE u \notin 1..n
        <3>1. b[u] = NextBatch
            BY <1>4, <2>2
        <3>2. QED BY <1>1, <1>4, <3>1
    <2>3. QED BY <2>1, <2>2
<1>7. \A t \in 1..n : transactions'[t].batch = BatchOf(t) /\ transactions'[t].batch < NextBatch
    BY <1>1, <1>2, <1>3 DEF BatchOf
<1>8. QED BY <1>1, <1>3, <1>5, <1>6, <1>7

LEMMA BatchedKept == ASSUME Batched, transactions' = transactions PROVE Batched'
<1>1. /\ Txn' = Txn /\ Posted' = Posted /\ NextBatch' = NextBatch /\ Manual' = Manual
      /\ \A t : transactions'[t].batch = BatchOf(t)
    BY DEF Txn, Posted, NextBatch, Manual, BatchOf
<1>2. QED BY <1>1 DEF Batched, BatchOf

LEMMA BatchedImport ==
    ASSUME Batched, BookOpen, transactions \in Seq(Row), NEW rows \in Seq(TheLine),
           transactions' = InsertTransactions(rows)
    PROVE  Batched'
<1> DEFINE n == Len(transactions)
<1>1. PICK fresh : fresh = Fresh(rows)
    OBVIOUS
<1>2. PICK after : after = InsertTransactions(rows)
    OBVIOUS
<1>3. PICK m : m = Len(fresh)
    OBVIOUS
<1>4. /\ m \in Nat /\ after \in Seq(Row) /\ Len(after) = n + m
      /\ \A t \in 1..n : after[t] = transactions[t]
      /\ \A k \in 1..m : PostedRow(after[n + k], fresh[k])
    BY <1>1, <1>2, <1>3, InsertedRows
<1>5. transactions' = after
    BY <1>2
<1>6. Grows(m)
    BY <1>4, <1>5 DEF Grows
<1>7. \A k \in 1..m : /\ transactions'[n + k].balance \in Int /\ transactions'[n + k].batch = NextBatch
                      /\ transactions'[n + k].account = Account
    BY <1>4, <1>5 DEF PostedRow, BatchOf
<1>8. /\ \A t \in Posted' : t \in Posted \/ \E k \in 1..m : t = n + k
      /\ Posted \subseteq 1..n
      /\ Manual' = Manual
    BY <1>4, <1>6, <1>7, PostedGrow
<1>9. /\ \A t \in Txn' : transactions'[t].batch < NextBatch'
      /\ \A t, u \in Txn' : t < u => transactions'[t].batch <= transactions'[u].batch
      /\ \A t \in Txn : transactions'[t].batch = BatchOf(t) /\ transactions'[t].batch < NextBatch
    BY <1>4, <1>6, <1>7, BatchedGrow
<1>10. \A t \in Txn' : t \in Txn \/ transactions'[t].batch = NextBatch
    <2>1. DOMAIN transactions' = 1..n + m /\ n \in Nat
        BY <1>4, <1>5
    <2> SUFFICES ASSUME NEW t \in 1..n + m, t \notin 1..n PROVE transactions'[t].batch = NextBatch
        BY <2>1 DEF Txn
    <2>2. t - n \in 1..m /\ t = n + (t - n)
        BY <1>4, <2>1
    <2>3. QED BY <1>7, <2>2
<1>11. ASSUME NEW t \in Manual', NEW u \in Txn', transactions'[t].batch = transactions'[u].batch PROVE t = u
    <2>1. t \in Manual /\ t \in Txn /\ transactions'[t].batch = BatchOf(t) /\ transactions'[t].batch < NextBatch
        BY <1>8, <1>9 DEF Manual
    <2>2. NextBatch \in Nat /\ BatchOf(t) \in Nat
        BY <2>1, BatchNumbers
    <2>3. u \in Txn
        <3>1. transactions'[u].batch # NextBatch
            BY <1>11, <2>1, <2>2
        <3>2. QED BY <1>10, <3>1
    <2>4. QED BY <1>9, <1>11, <2>1, <2>3 DEF Batched
<1>12. ASSUME NEW t \in Posted' PROVE transactions'[t].account = Account
    <2>1. CASE t \in Posted
        BY <1>6, <1>8, <2>1 DEF Grows, Batched
    <2>2. CASE t \notin Posted
        BY <1>7, <1>8, <2>2
    <2>3. QED BY <2>1, <2>2
<1>13. QED BY <1>9, <1>11, <1>12 DEF Batched, BatchOf

LEMMA BatchedManual ==
    ASSUME Batched, transactions \in Seq(Row), NEW row \in Row, row.batch = NextBatch, row.balance = NoBalance,
           transactions' = Append(transactions, row)
    PROVE  Batched'
<1> DEFINE n == Len(transactions)
<1>1. /\ n \in Nat /\ Txn = 1..n
      /\ transactions' \in Seq(Row) /\ Len(transactions') = n + 1 /\ DOMAIN transactions' = 1..n + 1
      /\ \A t \in 1..n : transactions'[t] = transactions[t]
      /\ transactions'[n + 1] = row
    BY DEF Txn
<1>2. Grows(1) /\ \A k \in 1..1 : transactions'[n + k].batch = NextBatch
    BY <1>1 DEF Grows, BatchOf
<1>3. /\ \A t \in Txn' : transactions'[t].batch < NextBatch'
      /\ \A t, u \in Txn' : t < u => transactions'[t].batch <= transactions'[u].batch
      /\ \A t \in Txn : transactions'[t].batch = BatchOf(t) /\ transactions'[t].batch < NextBatch
    BY <1>2, BatchedGrow
<1>4. Txn' = 1..n + 1 /\ transactions'[n + 1].batch = NextBatch /\ \A t \in 1..n + 1 : t \in 1..n \/ t = n + 1
    <2>1. \A t \in 1..n + 1 : t \in 1..n \/ t = n + 1
        BY <1>1
    <2>2. QED BY <1>1, <2>1 DEF Txn, BatchOf
<1> HIDE DEF n
<1>5. Posted' = Posted
    <2>1. \A t \in 1..n : t \in 1..n + 1
        BY <1>1
    <2>2. QED BY <1>1, <1>4, <2>1 DEF Posted, Txn
<1>6. ASSUME NEW t \in Manual', NEW u \in Txn', transactions'[t].batch = transactions'[u].batch PROVE t = u
    <2>1. (t \in Manual /\ t \in Txn) \/ t = n + 1
        BY <1>1, <1>4, <1>5 DEF Manual
    <2>2. u \in Txn \/ u = n + 1
        BY <1>1, <1>4
    <2>3. NextBatch \in Nat /\ \A v \in Txn : BatchOf(v) \in Nat /\ transactions'[v].batch # NextBatch
        BY <1>3, BatchNumbers
    <2>4. CASE t = n + 1
        BY <1>4, <1>6, <2>2, <2>3, <2>4
    <2>5. CASE t \in Manual /\ t \in Txn
        <3>1. u \in Txn
            BY <1>4, <1>6, <2>2, <2>3, <2>5
        <3>2. BatchOf(t) = BatchOf(u)
            BY <1>3, <1>6, <2>5, <3>1
        <3>3. QED BY <2>5, <3>1, <3>2 DEF Batched
    <2>6. QED BY <2>1, <2>4, <2>5
<1>7. ASSUME NEW t \in Posted' PROVE transactions'[t].account = Account
    BY <1>1, <1>5 DEF Batched, Posted
<1>8. QED BY <1>3, <1>6, <1>7 DEF Batched, BatchOf

-----------------------------------------------------------------------------
(* The statement that a transaction was posted from begins a day, and when *)
(* it was posted all the movements of the statement were.                  *)
Source(x, m) ==
    /\ StartsADay(m.first) /\ ShownBy(x, m)
    /\ \A i \in m.first..m.last :
          \E u \in Posted : Fingerprint(transactions[u]) = Mark(m, i) /\ transactions[u].batch <= x.batch

Sourced == \A t \in Posted : \E k \in Accepted : Source(transactions[t], imports[k])

LEMMA SourceKept ==
    ASSUME bank' = bank, setup' = setup, \A u \in Posted : u \in Posted' /\ transactions'[u] = transactions[u],
           NEW x, NEW m, Source(x, m)
    PROVE  Source(x, m)'
<1>1. StartsADay(m.first)'
    BY DEF Source, StartsADay
<1>2. ShownBy(x, m)'
    BY ShowsUnchanged DEF Source
<1>3. ASSUME NEW i \in m.first..m.last
      PROVE  \E u \in Posted' : Fingerprint(transactions'[u]) = Mark(m, i)' /\ transactions'[u].batch <= x.batch
    <2>1. PICK u \in Posted : Fingerprint(transactions[u]) = Mark(m, i) /\ transactions[u].batch <= x.batch
        BY DEF Source
    <2>2. QED BY <2>1, ShowsUnchanged
<1>4. QED BY <1>1, <1>2, <1>3 DEF Source

LEMMA SourcedKept ==
    ASSUME Sourced, bank' = bank, setup' = setup, Posted' = Posted,
           \A t \in Posted : transactions'[t] = transactions[t],
           Accepted' = Accepted, \A k \in Accepted : imports'[k] = imports[k]
    PROVE  Sourced'
<1>1. ASSUME NEW t \in Posted' PROVE (\E k \in Accepted : Source(transactions[t], imports[k]))'
    <2>1. PICK k \in Accepted : Source(transactions[t], imports[k])
        BY DEF Sourced
    <2>2. PICK x : x = transactions[t]
        OBVIOUS
    <2>3. PICK m : m = imports[k]
        OBVIOUS
    <2>4. Source(x, m)'
        BY <2>1, <2>2, <2>3, SourceKept
    <2>5. x = transactions'[t] /\ m = imports'[k] /\ k \in Accepted'
        BY <2>2, <2>3
    <2>6. QED BY <2>4, <2>5 DEF Source
<1>2. QED BY <1>1 DEF Sourced

LEMMA SourcedGrows ==
    ASSUME Sourced, bank' = bank, setup' = setup,
           \A t \in Posted : t \in Posted' /\ transactions'[t] = transactions[t],
           \A k \in Accepted : k \in Accepted' /\ imports'[k] = imports[k],
           NEW place \in Accepted', NEW import, import = imports'[place], StartsADay(import.first),
           PostedFrom(import)',
           \A t \in Posted' : t \in Posted \/ (ShownBy(transactions'[t], import) /\ transactions'[t].batch = NextBatch),
           \A t \in Posted' : transactions'[t].batch <= NextBatch
    PROVE  Sourced'
<1>1. ASSUME NEW t \in Posted' 
      PROVE  \E k \in Accepted' : \E x, m : x = transactions'[t] /\ m = imports'[k] /\ Source(x, m)'
    <2>1. CASE t \in Posted
        <3>1. PICK k \in Accepted : Source(transactions[t], imports[k])
            BY <2>1 DEF Sourced
        <3>2. PICK x : x = transactions[t]
            OBVIOUS
        <3>3. PICK m : m = imports[k]
            OBVIOUS
        <3>4. Source(x, m)'
            BY <3>1, <3>2, <3>3, SourceKept
        <3>5. x = transactions'[t] /\ m = imports'[k] /\ k \in Accepted'
            BY <2>1, <3>2, <3>3
        <3>6. QED BY <3>4, <3>5
    <2>2. CASE t \notin Posted
        <3>1. PICK x : x = transactions'[t]
            OBVIOUS
        <3>2. x.batch = NextBatch /\ ShownBy(x, import)
            BY <2>2, <3>1
        <3>3. StartsADay(import.first)'
            BY DEF StartsADay
        <3>4. ShownBy(x, import)'
            BY <3>2, ShowsUnchanged
        <3>5. ASSUME NEW i \in import.first..import.last
              PROVE  \E u \in Posted' : Fingerprint(transactions'[u]) = Mark(import, i)' /\ transactions'[u].batch <= x.batch
            <4>1. PICK u \in Posted' : Fingerprint(transactions'[u]) = Mark(import, i)'
                BY DEF PostedFrom
            <4>2. QED BY <3>2, <4>1
        <3>6. Source(x, import)'
            BY <3>3, <3>4, <3>5 DEF Source
        <3>7. QED BY <3>1, <3>6
    <2>3. QED BY <2>1, <2>2
<1>2. ASSUME NEW t \in Posted' PROVE (\E k \in Accepted : Source(transactions[t], imports[k]))'
    <2>1. PICK k \in Accepted' : \E x, m : x = transactions'[t] /\ m = imports'[k] /\ Source(x, m)'
        BY <1>1
    <2>2. PICK x, m : x = transactions'[t] /\ m = imports'[k] /\ Source(x, m)'
        BY <2>1
    <2>3. Source(transactions[t], imports[k])'
        BY <2>2 DEF Source
    <2>4. QED BY <2>3
<1>3. QED BY <1>2 DEF Sourced

-----------------------------------------------------------------------------
Records == Batched /\ (Faultless => Sourced)

LEMMA InsertedBatch ==
    ASSUME Batched, BookOpen, transactions \in Seq(Row), NEW rows \in Seq(TheLine),
           transactions' = InsertTransactions(rows)
    PROVE  /\ \A t \in Posted : t \in Posted' /\ transactions'[t] = transactions[t]
           /\ \A t \in Posted' : t \in Posted \/ transactions'[t].batch = NextBatch
           /\ \A t \in Posted' : transactions'[t].batch <= NextBatch
<1> DEFINE n == Len(transactions)
<1>1. PICK fresh : fresh = Fresh(rows)
    OBVIOUS
<1>2. PICK after : after = InsertTransactions(rows)
    OBVIOUS
<1>3. PICK m : m = Len(fresh)
    OBVIOUS
<1>4. /\ m \in Nat /\ after \in Seq(Row) /\ Len(after) = n + m
      /\ \A t \in 1..n : after[t] = transactions[t]
      /\ \A k \in 1..m : PostedRow(after[n + k], fresh[k])
    BY <1>1, <1>2, <1>3, InsertedRows
<1>5. transactions' = after
    BY <1>2
<1>6. Grows(m)
    BY <1>4, <1>5 DEF Grows
<1>7. \A k \in 1..m : transactions'[n + k].balance \in Int /\ transactions'[n + k].batch = NextBatch
    BY <1>4, <1>5 DEF PostedRow
<1>8. /\ \A t \in Posted' : t \in Posted \/ \E k \in 1..m : t = n + k
      /\ \A t \in Posted : t \in Posted' /\ transactions'[t] = transactions[t]
    BY <1>4, <1>6, <1>7, PostedGrow
<1>9. \A t \in Posted' : t \in Posted \/ transactions'[t].batch = NextBatch
    BY <1>7, <1>8
<1>10. ASSUME NEW t \in Posted' PROVE transactions'[t].batch <= NextBatch
    <2>1. NextBatch \in Nat
        BY BatchNumbers
    <2>2. CASE t \in Posted
        <3>1. t \in Txn /\ transactions'[t].batch = BatchOf(t)
            BY <1>8, <2>2 DEF Posted, BatchOf
        <3>2. BatchOf(t) < NextBatch /\ BatchOf(t) \in Nat
            BY <3>1, BatchNumbers DEF Batched
        <3>3. QED BY <2>1, <3>1, <3>2
    <2>3. CASE t \notin Posted
        BY <1>9, <2>1, <2>3
    <2>4. QED BY <2>2, <2>3
<1>11. QED BY <1>8, <1>9, <1>10

LEMMA RecordsKept ==
    ASSUME Typed, LedgerHolds, Records, [Next]_figures PROVE Records'
<1>0. /\ BookOpen /\ imports \in Seq(Import) /\ transactions \in Seq(Row)
      /\ DOMAIN bank = 1..Len(bank) /\ Len(bank) \in Nat /\ Batched
    BY BookType DEF Typed, Records
<1>1. ASSUME NEW first \in DOMAIN bank, NEW anchor \in BOOLEAN, NEW furniture \in setup.furniture,
             NEW last \in first..Len(bank), NEW lost \in 0..last - first + 1, ImportStatement(first, last, lost, anchor, furniture)
      PROVE  Records'
    <2> DEFINE rows == Parse(setup.provider, StatementOf(first, last, lost, anchor, furniture))
               import == [first |-> first, last |-> last, lost |-> lost, anchor |-> anchor,
                          furniture |-> furniture, accepted |-> rows # None,
                          opening |-> IF rows = None THEN None ELSE DerivedOpening(rows)]
               place == Len(imports) + 1
    <2>1. /\ imports' = Append(imports, import) /\ bank' = bank /\ setup' = setup
          /\ transactions' = IF rows = None THEN transactions ELSE InsertTransactions(rows)
          /\ StartsADay(first)
        BY <1>1 DEF ImportStatement
    <2>2. /\ import.first = first /\ import.last = last /\ import.anchor = anchor /\ import.lost = lost
          /\ import.furniture = furniture /\ import.accepted = (rows # None)
        OBVIOUS
    <2>20. furniture \in Furniture
        BY <1>0, FurnitureType
    <2>3. rows # None => rows \in Seq(TheLine)
        BY <1>0, <2>20, ParsedType
    <2> HIDE DEF import, rows
    <2>4. /\ DOMAIN imports' = 1..place /\ DOMAIN imports = 1..Len(imports) /\ Len(imports) \in Nat
          /\ \A k \in 1..Len(imports) : k \in 1..place /\ imports'[k] = imports[k]
          /\ place \in 1..place /\ imports'[place] = import
        BY <1>0, <2>1
    <2>5. \A k \in 1..place : k \in 1..Len(imports) \/ k = place
        BY <2>4
    <2> HIDE DEF place
    <2>6. /\ \A k \in Accepted : k \in Accepted' /\ imports'[k] = imports[k]
          /\ \A k \in Accepted' : k \in Accepted \/ k = place
          /\ place \in Accepted' <=> import.accepted
          /\ place \in Accepted => import.accepted
        BY <2>4, <2>5 DEF Accepted
    <2>7. Faultless' => Ledger /\ Sourced
        <3>1. Faultless' => \A k \in Accepted : imports[k].lost = 0
            BY <2>6 DEF Faultless
        <3>2. QED BY <3>1 DEF LedgerHolds, Records, Faultless
    <2>8. CASE rows = None
        <3>1. Accepted' = Accepted
            BY <2>2, <2>6, <2>8
        <3>2. transactions' = transactions /\ Posted' = Posted
            BY <2>1, <2>8 DEF Posted, Txn
        <3>3. Batched'
            BY <1>0, <3>2, BatchedKept
        <3>4. Faultless' => Sourced'
            BY <2>1, <2>6, <2>7, <3>1, <3>2, SourcedKept
        <3>5. QED BY <3>3, <3>4 DEF Records
    <2>9. CASE rows # None
        <3>1. transactions' = InsertTransactions(rows) /\ import.accepted /\ place \in Accepted'
            BY <2>1, <2>2, <2>6, <2>9
        <3>2. Batched'
            BY <1>0, <2>3, <2>9, <3>1, BatchedImport
        <3>3. ASSUME Faultless' PROVE Sourced'
            <4>1. lost = 0
                BY <2>2, <2>4, <2>6, <2>9, <3>3 DEF Faultless
            <4>2. TellsAll(rows, first, last, furniture, anchor)
                BY <1>0, <2>20, <2>9, <4>1, ParsedTellsAll DEF rows
            <4>3. Ledger' /\ \A t \in Posted' : t \in Posted \/ ShownBy(transactions'[t], import)
                BY <1>0, <2>20, <2>1, <2>2, <2>3, <2>7, <2>9, <3>1, <3>3, <4>2, LedgerGrows
            <4>4. PICK p, m : p = place /\ m = import
                OBVIOUS
            <4>5. p \in Accepted' /\ m = imports'[p] /\ StartsADay(m.first)
                BY <2>1, <2>2, <2>4, <3>1, <4>4
            <4>6. PostedFrom(m)'
                <5>1. PostedFrom(imports[p])'
                    BY <4>3, <4>5 DEF Ledger
                <5>2. QED BY <4>5, <5>1 DEF PostedFrom
            <4>7. /\ \A t \in Posted : t \in Posted' /\ transactions'[t] = transactions[t]
                  /\ \A t \in Posted' : t \in Posted \/ transactions'[t].batch = NextBatch
                  /\ \A t \in Posted' : transactions'[t].batch <= NextBatch
                BY <1>0, <2>3, <2>9, <3>1, InsertedBatch
            <4>8. \A t \in Posted' : t \in Posted \/ (ShownBy(transactions'[t], m) /\ transactions'[t].batch = NextBatch)
                BY <4>3, <4>4, <4>7
            <4>9. Sourced
                BY <2>7, <3>3
            <4>10. QED BY <2>1, <2>6, <4>5, <4>6, <4>7, <4>8, <4>9, SourcedGrows
        <3>4. QED BY <3>2, <3>3 DEF Records
    <2>10. QED BY <2>8, <2>9
<1>2. ASSUME NEW account \in Accounts, NEW day \in Days, NEW direction \in Directions,
             EnterManually(account, day, direction)
      PROVE  Records'
    <2> DEFINE row == [account |-> account, day |-> day, amount |-> ManualAmount, direction |-> direction,
                       text |-> None, balance |-> NoBalance, currency |-> currencyOf[account],
                       batch |-> NextBatch]
               n == Len(transactions)
    <2>1. /\ transactions' = Append(transactions, row)
          /\ setup' = setup /\ bank' = bank /\ imports' = imports
        BY <1>2 DEF EnterManually
    <2>2. row \in Row /\ row.balance = NoBalance /\ row.batch = NextBatch
        <3>1. NextBatch \in Nat
            BY <1>0, BatchType
        <3>2. ManualAmount \in Nat /\ currencyOf[account] \in Currencies
            BY FiguresAssumption DEF Typed
        <3>3. QED BY <3>1, <3>2 DEF Row
    <2> HIDE DEF row
    <2>3. Batched'
        BY <1>0, <2>1, <2>2, BatchedManual
    <2>4. Posted' = Posted /\ \A t \in Posted : transactions'[t] = transactions[t]
        <3>1. /\ DOMAIN transactions' = 1..n + 1 /\ DOMAIN transactions = 1..n /\ n \in Nat
              /\ \A t \in 1..n : transactions'[t] = transactions[t]
              /\ transactions'[n + 1] = row
            BY <1>0, <2>1, <2>2
        <3>2. /\ \A t \in 1..n : t \in 1..n + 1
              /\ \A t \in 1..n + 1 : t \in 1..n \/ t = n + 1
            BY <3>1
        <3> HIDE DEF n
        <3>3. QED BY <2>2, <3>1, <3>2 DEF Posted, Txn
    <2>5. Accepted' = Accepted /\ (Faultless' <=> Faultless)
        BY <2>1, AcceptedKept
    <2>6. Faultless' => Sourced'
        BY <2>1, <2>4, <2>5, SourcedKept DEF Records
    <2>7. QED BY <2>3, <2>6 DEF Records
<1>3. ASSUME UNCHANGED <<setup, bank, imports, transactions>> PROVE Records'
    <2>1. Accepted' = Accepted /\ (Faultless' <=> Faultless) /\ Posted' = Posted
        BY <1>3, AcceptedKept DEF Posted, Txn
    <2>2. Batched'
        BY <1>0, <1>3, BatchedKept
    <2>3. Faultless' => Sourced'
        BY <1>3, <2>1, SourcedKept DEF Records
    <2>4. QED BY <2>2, <2>3 DEF Records
<1>4. QED
    <2>1. CASE UNCHANGED figures
        BY <1>3, <2>1 DEF figures
    <2>2. CASE Next
        <3>1. ASSUME NEW t, NEW target, NEW amount, NEW source, NEW seen,
                     Allocate(t, target, amount, source, seen)
              PROVE  Records'
            BY <1>3, <3>1 DEF Allocate
        <3>2. QED BY <1>1, <1>2, <2>2, <3>1 DEF Next
    <2>3. QED BY <2>1, <2>2

-----------------------------------------------------------------------------
(* Numbers that are bounded have a least and a greatest. *)
LEMMA MinMax ==
    ASSUME NEW S \in SUBSET Int, IsFiniteSet(S), S # {}
    PROVE  /\ Min(S) \in S /\ \A x \in S : Min(S) <= x
           /\ Max(S) \in S /\ \A x \in S : x <= Max(S)
<1>1. (\E m \in S : \A x \in S : m <= x) /\ (\E m \in S : \A x \in S : m >= x)
    <2>1. \A m, x \in S : x <= m => m >= x
        OBVIOUS
    <2>2. QED BY <2>1, Extremes
<1>2. \A m, x \in S : m >= x => x <= m
    OBVIOUS
<1>3. QED BY <1>1, <1>2 DEF Min, Max

LEMMA CoveredType ==
    ASSUME Typed
    PROVE  /\ Covered \in SUBSET (1..Len(bank)) /\ IsFiniteSet(Covered) /\ Covered \in SUBSET Int
           /\ \A k \in Accepted : imports[k].first \in Covered /\ imports[k].last \in 1..Len(bank)
<1>1. /\ BookOpen /\ Len(bank) \in Nat
      /\ \A k \in Accepted : /\ imports[k].first \in 1..Len(bank) /\ imports[k].last \in 1..Len(bank)
                             /\ imports[k].first <= imports[k].last
    <2>1. BookOpen /\ imports \in Seq(Import) /\ \A k \in DOMAIN imports : imports[k].first <= imports[k].last
        BY DEF Typed
    <2>2. \A k \in DOMAIN imports : imports[k] \in Import
        BY <2>1
    <2>3. QED BY <2>1, <2>2, BookType DEF Import, Accepted
<1>2. Covered \subseteq 1..Len(bank)
    BY <1>1 DEF Covered
<1>3. IsFiniteSet(Covered)
    BY <1>1, <1>2, SpanSums
<1>4. Covered \subseteq Int
    BY <1>1, <1>2
<1>5. ASSUME NEW k \in Accepted PROVE imports[k].first \in Covered
    <2>1. imports[k].first \in imports[k].first..imports[k].last
        BY <1>1
    <2>2. QED BY <2>1 DEF Covered
<1>6. QED BY <1>1, <1>2, <1>3, <1>4, <1>5

(* When every movement is read with one text, and no two alike: which      *)
(* movement each posted row is.                                            *)
IsMove(h) ==
    /\ h \in Bijection(Posted, Covered)
    /\ \A t \in Posted :
          /\ transactions[t].day = DayOf(bank[h[t]].time)
          /\ \A r \in Readings : MarkOf(r) = Fingerprint(transactions[t]) <=> r[1] = h[t]
          /\ transactions[t].balance = LineOf(h[t]).balance
          /\ Signed(t) = bank[h[t]].delta

(* What is covered was read. *)
LEMMA CoveredReadings == \A i \in Covered : \E r \in Readings : r[1] = i
<1> SUFFICES ASSUME NEW i \in Covered PROVE \E r \in Readings : r[1] = i
    OBVIOUS
<1>1. PICK k \in Accepted : i \in imports[k].first..imports[k].last
    BY DEF Covered
<1>2. <<i, TextIn(imports[k].first, imports[k].furniture, i)>> \in Readings
    BY <1>1, ReadingsAre
<1>3. QED BY <1>2

LEMMA Moves ==
    ASSUME Typed, Ledger, Sound PROVE \E h : IsMove(h)
<1> DEFINE Of(t, j) == /\ transactions[t].day = DayOf(bank[j].time)
                       /\ \A r \in Readings : MarkOf(r) = Fingerprint(transactions[t]) <=> r[1] = j
                       /\ transactions[t].balance = LineOf(j).balance
                       /\ Signed(t) = bank[j].delta
           h == [t \in Posted |-> CHOOSE j \in Covered : Of(t, j)]
<1>0. BookOpen /\ Covered \in SUBSET (1..Len(bank))
    BY CoveredType DEF Typed
<1>1. \A q, r \in Readings : q[1] = r[1] <=> MarkOf(q) = MarkOf(r)
    BY DEF Sound
<1>2. ASSUME NEW t \in Posted PROVE \E j \in Covered : Of(t, j)
    <2>1. PICK k \in Accepted : ShownBy(transactions[t], imports[k])
        BY DEF Ledger
    <2>2. PICK j \in imports[k].first..imports[k].last :
              Shows(transactions[t], j, imports[k].first, imports[k].furniture, imports[k].anchor)
        BY <2>1 DEF ShownBy
    <2>3. j \in Covered
        BY DEF Covered
    <2>4. transactions[t].direction = LineOf(j).direction /\ transactions[t].amount = LineOf(j).amount
        <3>1. LineOf(j).amount = Abs(bank[j].delta)
            BY DEF LineOf
        <3>2. QED BY <2>2, <3>1 DEF Sound, Shows, Misread
    <2>5. Signed(t) = bank[j].delta
        <3>1. Delta(LineOf(j)) = bank[j].delta
            BY <1>0, <2>3, LineDelta
        <3>2. QED BY <2>4, <3>1 DEF Signed, Delta, AmountOf
    <2>6. Fingerprint(transactions[t]) = Mark(imports[k], j)
        BY <2>2 DEF Shows, Fingerprint, Mark
    <2>7. PICK q \in Readings : q[1] = j /\ MarkOf(q) = Fingerprint(transactions[t])
        BY <2>6, ReadingsAre
    <2>8. \A r \in Readings : MarkOf(r) = Fingerprint(transactions[t]) <=> r[1] = j
        BY <1>1, <2>7
    <2>9. Of(t, j)
        BY <2>2, <2>5, <2>8 DEF Shows
    <2>10. QED BY <2>3, <2>9
<1>3. ASSUME NEW t \in Posted PROVE h[t] \in Covered /\ Of(t, h[t])
    <2>1. h[t] = CHOOSE j \in Covered : Of(t, j)
        OBVIOUS
    <2> HIDE DEF h, Of
    <2>2. QED BY <1>2, <2>1
<1>4. \A t \in Posted : \A r \in Readings : MarkOf(r) = Fingerprint(transactions[t]) <=> r[1] = h[t]
    BY <1>3
<1>5. h \in [Posted -> Covered]
    BY <1>3
<1>6. ASSUME NEW t \in Posted, NEW u \in Posted, h[t] = h[u] PROVE t = u
    <2> HIDE DEF h, Of
    <2>1. PICK r \in Readings : r[1] = h[t]
        BY <1>5, CoveredReadings
    <2>2. Fingerprint(transactions[t]) = Fingerprint(transactions[u])
        BY <1>4, <1>6, <2>1
    <2>3. QED BY <2>2 DEF Ledger
<1>7. ASSUME NEW i \in Covered PROVE \E t \in Posted : h[t] = i
    <2> HIDE DEF h, Of
    <2>1. PICK r \in Readings : r[1] = i
        BY CoveredReadings
    <2>2. PICK t \in Posted : Fingerprint(transactions[t]) = MarkOf(r)
        BY PostedReadings
    <2>3. QED BY <1>4, <2>1, <2>2
<1>8. IsMove(h)
    <2>1. \A t \in Posted : Of(t, h[t])
        BY <1>3
    <2>2. h \in Bijection(Posted, Covered)
        <3> HIDE DEF h, Of
        <3>1. QED BY <1>5, <1>6, <1>7 DEF Bijection, Injection, Surjection, IsInjective
    <2> HIDE DEF h
    <2>3. QED BY <2>1, <2>2 DEF IsMove
<1>9. QED BY <1>8

(* A later row of the account's statement. *)
Later(u, t) ==
    \/ transactions[t].day < transactions[u].day
    \/ transactions[t].day = transactions[u].day /\ transactions[t].batch < transactions[u].batch

LEMMA OneAnchor ==
    ASSUME Typed, Sound
    PROVE  /\ Anchor \in Posted
           /\ \A u \in Posted : u # Anchor => Later(u, Anchor)
<1>1. PICK a : Anchors = {a}
    <2>1. IsFiniteSet(Anchors)
        <3>1. Anchors \subseteq 1..Len(transactions)
            BY DEF Anchors, Posted, Txn, Typed
        <3>2. QED BY <3>1, Positions, FS_Subset DEF Typed
    <2>2. QED BY <2>1, FS_Singleton DEF Sound
<1>2. Anchor = a /\ a \in Anchors
    BY <1>1 DEF Anchor
<1>3. a \in Posted /\ \A u \in Posted :
          \/ transactions[a].day < transactions[u].day
          \/ transactions[a].day = transactions[u].day /\ transactions[a].batch <= transactions[u].batch
    BY <1>2 DEF Anchors
<1>4. \A t \in Posted : transactions[t].day \in Int /\ transactions[t].batch \in Nat
    <2>1. \A t \in Posted : transactions[t].day \in Days /\ transactions[t].batch \in Nat
        BY BatchNumbers DEF Typed, Posted, BatchOf
    <2>2. \A d \in Days : d \in Int
        BY ReportsAssumption
    <2>3. QED BY <2>1, <2>2
<1>5. ASSUME NEW u \in Posted, u # a PROVE Later(u, a)
    <2>1. u \notin Anchors
        BY <1>1, <1>5
    <2>2. PICK v \in Posted :
              /\ ~(transactions[u].day < transactions[v].day)
              /\ ~(transactions[u].day = transactions[v].day /\ transactions[u].batch <= transactions[v].batch)
        BY <2>1 DEF Anchors
    <2>3. QED BY <1>3, <1>4, <2>2 DEF Later
<1>6. QED BY <1>2, <1>3, <1>5

-----------------------------------------------------------------------------
LEMMA DaysInOrder ==
    ASSUME BookOpen
    PROVE  /\ \A i \in 1..Len(bank) : DayOf(bank[i].time) \in Nat
           /\ \A i, j \in 1..Len(bank) : i <= j => DayOf(bank[i].time) <= DayOf(bank[j].time)
<1>1. \A x, y \in 1..MaxTime : /\ (x + 1) \div 2 \in Nat
                               /\ x <= y => (x + 1) \div 2 <= (y + 1) \div 2
    <2>1. MaxTime \in Nat
        BY FiguresAssumption
    <2>2. QED BY <2>1
<1>2. /\ \A i \in 1..Len(bank) : bank[i].time \in 1..MaxTime
      /\ \A i, j \in 1..Len(bank) : i < j => bank[i].time <= bank[j].time
      /\ Len(bank) \in Nat
    BY BookType
<1>3. ASSUME NEW i \in 1..Len(bank), NEW j \in 1..Len(bank), i <= j
      PROVE  DayOf(bank[i].time) <= DayOf(bank[j].time)
    <2>1. CASE i = j
        BY <1>1, <1>2, <2>1 DEF DayOf
    <2>2. CASE i # j
        <3>1. bank[i].time <= bank[j].time
            BY <1>2, <1>3, <2>2
        <3>2. QED BY <1>1, <1>2, <3>1 DEF DayOf
    <2>3. QED BY <2>1, <2>2
<1>4. QED BY <1>1, <1>2, <1>3 DEF DayOf

(* The anchor shows the first movement that is covered. *)
LEMMA AnchorIsFirst ==
    ASSUME Typed, Ledger, Sourced, Sound, NEW h, IsMove(h)
    PROVE  h[Anchor] = Min(Covered)
<1>1. PICK a : a = Anchor
    OBVIOUS
<1>2. a \in Posted /\ \A u \in Posted : u # a => Later(u, a)
    BY <1>1, OneAnchor
<1>3. PICK lo : lo = Min(Covered)
    OBVIOUS
<1>4. /\ lo \in Covered /\ (\A i \in Covered : lo <= i) /\ Covered \subseteq 1..Len(bank)
      /\ BookOpen /\ Len(bank) \in Nat
    BY <1>3, CoveredType, MinMax, BookType DEF Sound, Typed
<1>5. \A t \in Posted : \A r \in Readings : MarkOf(r) = Fingerprint(transactions[t]) <=> r[1] = h[t]
    BY DEF IsMove
<1>6. PICK b \in Posted : h[b] = lo
    BY <1>4 DEF IsMove, Bijection, Surjection
<1>7. /\ h[a] \in Covered
      /\ transactions[a].day = DayOf(bank[h[a]].time) /\ transactions[b].day = DayOf(bank[lo].time)
    BY <1>2, <1>6 DEF IsMove, Bijection, Injection
<1>8. PICK k \in Accepted : Source(transactions[a], imports[k])
    BY <1>2 DEF Sourced
<1>9. PICK m : m = imports[k]
    OBVIOUS
<1>10. /\ StartsADay(m.first)
       /\ \E j \in m.first..m.last : Mark(m, j) = Fingerprint(transactions[a])
       /\ \A i \in m.first..m.last :
             \E u \in Posted : Fingerprint(transactions[u]) = Mark(m, i) /\ transactions[u].batch <= transactions[a].batch
    BY <1>8, <1>9 DEF Source, ShownBy, Shows, Fingerprint, Mark
<1>11. m.first \in Covered /\ m.first..m.last \subseteq Covered /\ m.last \in 1..Len(bank)
    BY <1>9, CoveredType DEF Covered
<1>12. \A i \in m.first..m.last : \E r \in Readings : r[1] = i /\ MarkOf(r) = Mark(m, i)
    BY <1>9, ReadingsAre
<1>13. h[a] \in m.first..m.last
    <2>1. PICK j \in m.first..m.last : Mark(m, j) = Fingerprint(transactions[a])
        BY <1>10
    <2>2. h[a] = j
        BY <1>2, <1>5, <1>12, <2>1
    <2>3. QED BY <2>2
<1>14. a # b => Later(b, a)
    BY <1>2, <1>6
<1>15. DayOf(bank[lo].time) <= DayOf(bank[m.first].time) /\ DayOf(bank[m.first].time) <= DayOf(bank[h[a]].time)
    <2>1. lo \in 1..Len(bank) /\ m.first \in 1..Len(bank) /\ h[a] \in 1..Len(bank)
        BY <1>4, <1>7, <1>11
    <2>2. m.first <= h[a] /\ lo <= m.first
        BY <1>4, <1>11, <1>13, <2>1
    <2>3. QED BY <1>4, <2>1, <2>2, DaysInOrder
<1>16. /\ DayOf(bank[lo].time) \in Nat /\ DayOf(bank[h[a]].time) \in Nat /\ DayOf(bank[m.first].time) \in Nat
    BY <1>4, <1>7, <1>11, DaysInOrder
<1>17. a = b
    <2> SUFFICES ASSUME a # b PROVE FALSE
        OBVIOUS
    <2>1. ~(DayOf(bank[h[a]].time) > DayOf(bank[lo].time)) /\ DayOf(bank[lo].time) = DayOf(bank[h[a]].time)
        <3>1. DayOf(bank[h[a]].time) <= DayOf(bank[lo].time)
            BY <1>7, <1>14, <1>16 DEF Later
        <3>2. QED BY <1>15, <1>16, <3>1
    <2>2. DayOf(bank[m.first].time) = DayOf(bank[lo].time)
        BY <1>15, <1>16, <2>1
    <2>3. m.first = lo
        <3> SUFFICES ASSUME m.first # lo PROVE FALSE
            OBVIOUS
        <3>0. m.first \in 1..Len(bank) /\ lo \in 1..Len(bank) /\ lo <= m.first
            BY <1>4, <1>11
        <3>1. lo \in 1..m.first - 1
            BY <1>4, <3>0
        <3>2. QED BY <1>10, <2>2, <3>1 DEF StartsADay
    <2>4. lo \in m.first..m.last
        <3>1. m.first \in 1..Len(bank) /\ h[a] \in 1..Len(bank)
            BY <1>4, <1>7, <1>11
        <3>2. m.first \in m.first..m.last
            BY <1>4, <1>11, <1>13, <3>1
        <3>3. QED BY <2>3, <3>2
    <2>5. PICK u \in Posted : Fingerprint(transactions[u]) = Mark(m, lo) /\ transactions[u].batch <= transactions[a].batch
        BY <1>10, <2>4
    <2>6. u = b
        <3>1. PICK r \in Readings : r[1] = lo /\ MarkOf(r) = Mark(m, lo)
            BY <1>12, <2>4
        <3>2. MarkOf(r) = Fingerprint(transactions[b])
            BY <1>5, <1>6, <3>1
        <3>3. QED BY <1>6, <2>5, <3>1, <3>2 DEF Ledger
    <2>7. transactions[a].batch < transactions[b].batch
        BY <1>7, <1>14, <2>1, <1>16 DEF Later
    <2>8. transactions[a].batch \in Nat /\ transactions[b].batch \in Nat
        BY <1>2, BatchNumbers DEF Typed, Posted, BatchOf
    <2>9. QED BY <2>5, <2>6, <2>7, <2>8
<1>18. QED BY <1>1, <1>3, <1>6, <1>17

-----------------------------------------------------------------------------
OfAccount == {t \in Txn : transactions[t].account = Account}

(* An order of the account's statement: its rows, each once, none before a *)
(* row that it is later than.                                              *)
IsListing(order, n) ==
    /\ n \in Nat /\ DOMAIN order = 1..n /\ order \in Bijection(1..n, OfAccount)
    /\ \A i, j \in 1..n : i < j => ~Later(order[i], order[j])

LEMMA OrderIs ==
    ASSUME Typed, NEW order \in Orders(Account) PROVE \E n : IsListing(order, n)
<1>1. IsFiniteSet(OfAccount)
    <2>1. OfAccount \subseteq 1..Len(transactions)
        BY DEF OfAccount, Txn, Typed
    <2>2. QED BY <2>1, Positions, FS_Subset DEF Typed
<1>2. PICK n : n = Cardinality(OfAccount)
    OBVIOUS
<1>3. n \in Nat
    BY <1>1, <1>2, FS_CardinalityType
<1>4. /\ order \in SetToSeqs(OfAccount)
      /\ \A i, j \in DOMAIN order : i < j => ~Later(order[i], order[j])
    BY DEF Orders, OfAccount, Later
<1>5. order \in [1..n -> OfAccount] /\ \A i, j \in 1..n : i # j => order[i] # order[j]
    BY <1>2, <1>4 DEF SetToSeqs
<1> DEFINE image == {order[i] : i \in 1..n}
<1>6. image = OfAccount
    <2>1. order \in Bijection(1..n, image)
        BY <1>5 DEF Bijection, Injection, Surjection, IsInjective
    <2>2. image \subseteq OfAccount
        BY <1>5
    <2> HIDE DEF image
    <2>3. Cardinality(image) = n
        BY <1>3, <2>1, FS_CountingElements DEF ExistsBijection
    <2>4. QED BY <1>1, <1>2, <2>2, <2>3, FS_Subset
<1>7. order \in Bijection(1..n, OfAccount)
    <2>1. \A t \in OfAccount : \E i \in 1..n : order[i] = t
        BY <1>6
    <2>2. QED BY <1>5, <2>1 DEF Bijection, Injection, Surjection, IsInjective
<1>8. QED BY <1>3, <1>4, <1>5, <1>7 DEF IsListing

LEMMA RowOrder ==
    ASSUME Typed
    PROVE  /\ Txn \in SUBSET Nat
           /\ \A t \in Txn : transactions[t].day \in Nat /\ transactions[t].batch \in Nat
<1>1. \A d \in Days : d \in Nat
    BY ReportsAssumption
<1>2. QED BY <1>1, BatchNumbers DEF Typed, BatchOf

(* Where the anchor stands: first of the rows with a balance, behind the   *)
(* entries made by hand that are not since.                                *)
IsPlace(order, n, p) ==
    /\ p \in 1..n /\ order[p] = Anchor /\ p = Min(Stating(order))
    /\ \A i \in 1..n : i <= p <=> (order[i] = Anchor \/ (order[i] \in Manual /\ ~SinceAnchor(order[i])))

LEMMA AnchorPlace ==
    ASSUME Typed, Batched, Sound, NEW order, NEW n, IsListing(order, n)
    PROVE  \E p : IsPlace(order, n, p)
<1>1. PICK a : a = Anchor
    OBVIOUS
<1>2. a \in Posted /\ \A u \in Posted : u # a => Later(u, a)
    BY <1>1, OneAnchor
<1>3. a \in OfAccount
    BY <1>2 DEF Batched, OfAccount, Posted
<1>4. /\ n \in Nat /\ DOMAIN order = 1..n
      /\ \A i \in 1..n : order[i] \in Txn
      /\ \A i, j \in 1..n : i # j => order[i] # order[j]
      /\ \A i, j \in 1..n : i < j => ~Later(order[i], order[j])
    BY DEF IsListing, Bijection, Injection, IsInjective, OfAccount
<1>5. PICK p \in 1..n : order[p] = a
    BY <1>3 DEF IsListing, Bijection, Surjection
<1>6. \A i \in 1..n : i \in Stating(order) <=> order[i] \in Posted
    BY <1>4 DEF Stating, Posted
<1>7. ASSUME NEW i \in 1..n, order[i] \in Posted PROVE p <= i
    <2> SUFFICES ASSUME i < p PROVE FALSE
        BY <1>4, <1>5
    <2>1. order[i] # a
        BY <1>4, <1>5
    <2>2. QED BY <1>2, <1>4, <1>5, <1>7, <2>1
<1>8. p = Min(Stating(order))
    <2>1. Stating(order) \subseteq 1..n /\ p \in Stating(order) /\ \A i \in Stating(order) : p <= i
        BY <1>2, <1>4, <1>5, <1>6, <1>7 DEF Stating
    <2>2. Stating(order) \in SUBSET Int /\ IsFiniteSet(Stating(order)) /\ Stating(order) # {}
        <3>1. IsFiniteSet(1..n) /\ 1..n \subseteq Int
            BY <1>4, FS_Interval
        <3>2. QED BY <2>1, <3>1, FS_Subset
    <2>3. Min(Stating(order)) \in Stating(order) /\ Min(Stating(order)) <= p
        BY <2>1, <2>2, MinMax
    <2>4. QED BY <2>1, <2>2, <2>3
<1>9. ASSUME NEW t \in Manual
      PROVE  /\ t \in Txn /\ t # a
             /\ Later(t, a) => SinceAnchor(t)
             /\ Later(a, t) => ~SinceAnchor(t)
             /\ Later(t, a) \/ Later(a, t)
    <2>1. t \in Txn /\ t # a /\ a \in Txn
        BY <1>2 DEF Manual, Posted
    <2>2. /\ transactions[t].day \in Nat /\ transactions[a].day \in Nat /\ t \in Nat /\ a \in Nat
          /\ transactions[t].batch \in Nat /\ transactions[a].batch \in Nat
        BY <2>1, RowOrder
    <2>3. transactions[t].batch # transactions[a].batch
        BY <2>1 DEF Batched, BatchOf
    <2>4. /\ t < a => transactions[t].batch <= transactions[a].batch
          /\ a < t => transactions[a].batch <= transactions[t].batch
        BY <2>1 DEF Batched, BatchOf
    <2>5. t > a <=> transactions[a].batch < transactions[t].batch
        BY <2>1, <2>2, <2>3, <2>4
    <2>6. QED BY <1>1, <2>1, <2>2, <2>3, <2>5 DEF Later, SinceAnchor
<1>10. ASSUME NEW i \in 1..n, i <= p PROVE order[i] = a \/ (order[i] \in Manual /\ ~SinceAnchor(order[i]))
    <2> SUFFICES ASSUME order[i] # a PROVE order[i] \in Manual /\ ~SinceAnchor(order[i])
        OBVIOUS
    <2>1. i < p
        BY <1>4, <1>5, <1>10
    <2>2. order[i] \in Manual
        BY <1>4, <1>7, <2>1 DEF Manual
    <2>3. ~Later(order[i], a)
        BY <1>4, <1>5, <2>1
    <2>4. QED BY <1>9, <2>2, <2>3
<1>11. ASSUME NEW i \in 1..n, ~(i <= p) PROVE order[i] # a /\ (order[i] \in Manual => SinceAnchor(order[i]))
    <2>1. p < i /\ order[i] # a
        BY <1>4, <1>5, <1>11
    <2>2. ~Later(a, order[i])
        BY <1>4, <1>5, <2>1
    <2>3. QED BY <1>9, <2>1, <2>2
<1>12. QED BY <1>1, <1>5, <1>8, <1>10, <1>11 DEF IsPlace

-----------------------------------------------------------------------------
Signs == [t \in Txn |-> Signed(t)]

LEMMA SignsType ==
    ASSUME Typed, NEW S \in SUBSET Txn
    PROVE  /\ IsFiniteSet(S) /\ SumFunctionOnSet(Signs, S) \in Int
           /\ \A t \in S : Signs[t] \in Int /\ Signs[t] = Signed(t)
<1>1. IsFiniteSet(S)
    <2>1. Txn = 1..Len(transactions) /\ IsFiniteSet(Txn)
        BY Positions DEF Typed, Txn
    <2>2. QED BY <2>1, FS_Subset
<1>2. \A t \in S : Signs[t] \in Int /\ Signs[t] = Signed(t)
    <2>1. \A t \in Txn : AmountOf(t) \in Nat
        BY BatchNumbers DEF Typed
    <2>2. \A t \in Txn : Signed(t) \in Int
        BY <2>1 DEF Signed
    <2>3. QED BY <2>2 DEF Signs
<1>3. SumFunctionOnSet(Signs, S) \in Int
    BY <1>1, <1>2, SumType
<1>4. QED BY <1>1, <1>2, <1>3

(* What the first rows of a listing add up to. *)
FirstRows(order, m) == {order[i] : i \in 1..m}

LEMMA NetIs ==
    ASSUME Typed, NEW order, NEW n, IsListing(order, n), NEW m \in 0..n
    PROVE  Net(order, m) = SumFunctionOnSet(Signs, FirstRows(order, m)) /\ FirstRows(order, m) \subseteq Txn
<1> DEFINE g == [i \in 1..m |-> Signed(order[i])]
           h == [i \in 1..m |-> order[i]]
           T == FirstRows(order, m)
<1>1. /\ n \in Nat /\ m \in Nat /\ 1..m \subseteq 1..n
      /\ \A i \in 1..n : order[i] \in Txn
      /\ \A i, j \in 1..n : order[i] = order[j] => i = j
    <2>1. n \in Nat
        BY DEF IsListing
    <2>2. m \in Nat /\ 1..m \subseteq 1..n
        BY <2>1
    <2>3. QED BY <2>1, <2>2 DEF IsListing, Bijection, Injection, IsInjective, OfAccount
<1>2. T \subseteq Txn
    BY <1>1 DEF FirstRows
<1>3. IsFiniteSet(1..m) /\ IsFiniteSet(T) /\ \A t \in T : Signs[t] \in Int /\ Signs[t] = Signed(t)
    <2>1. IsFiniteSet(1..m)
        BY <1>1, FS_Interval
    <2> HIDE DEF T
    <2>2. QED BY <1>2, <2>1, SignsType
<1>4. h \in Bijection(1..m, T)
    <2>1. h \in [1..m -> T] /\ (\A i, j \in 1..m : h[i] = h[j] => i = j) /\ \A t \in T : \E i \in 1..m : h[i] = t
        BY <1>1 DEF FirstRows
    <2> HIDE DEF h, T
    <2>2. QED BY <2>1 DEF Bijection, Injection, Surjection, IsInjective
<1>5. \A i \in 1..m : g[i] = Signs[h[i]]
    BY <1>3 DEF FirstRows
<1>6. Net(order, m) = SumFunctionOnSet(g, 1..m)
    BY DEF Net, SumOf
<1> HIDE DEF g, h, T
<1>7. SumFunctionOnSet(g, 1..m) = SumFunctionOnSet(Signs, T)
    BY <1>3, <1>4, <1>5, SumRenamed
<1>8. QED BY <1>2, <1>6, <1>7 DEF T

(* What the bank held at the end of a day, by the rows posted up to it.    *)
UpTo(day) == {i \in Covered : DayOf(bank[i].time) <= day}
PostedBy(day) == {t \in Posted : transactions[t].day <= day}

LEMMA PostedWorth ==
    ASSUME Typed, Sound, NEW h, IsMove(h), NEW lo, lo = Min(Covered), NEW d \in Int, DayOf(bank[lo].time) <= d
    PROVE  /\ Booked(Max(UpTo(d))) = Booked(lo - 1) + SumFunctionOnSet(Signs, PostedBy(d))
           /\ Booked(lo) = Booked(lo - 1) + bank[lo].delta
           /\ Booked(lo - 1) \in Int /\ bank[lo].delta \in Int
<1>1. /\ BookOpen /\ Len(bank) \in Nat
      /\ Covered \in SUBSET (1..Len(bank)) /\ Covered \in SUBSET Int /\ IsFiniteSet(Covered)
      /\ lo \in Covered /\ \A i \in Covered : lo <= i
      /\ Covered = lo..Max(Covered) /\ Max(Covered) \in Covered
    BY CoveredType, BookType, MinMax DEF Typed, Sound
<1>2. lo \in 1..Len(bank) /\ lo - 1 \in 0..Len(bank)
    BY <1>1
<1>3. /\ Booked(lo) = Booked(lo - 1) + bank[lo].delta /\ Booked(lo - 1) \in Int /\ bank[lo].delta \in Int
    BY <1>1, <1>2, BookedSteps, BookType
<1>4. PICK last : last = Max(UpTo(d))
    OBVIOUS
<1>5. last \in UpTo(d) /\ \A i \in UpTo(d) : i <= last
    <2>1. UpTo(d) \in SUBSET Int /\ IsFiniteSet(UpTo(d)) /\ UpTo(d) # {}
        <3>1. UpTo(d) \subseteq Covered /\ lo \in UpTo(d)
            BY <1>1 DEF UpTo
        <3>2. QED BY <1>1, <3>1, FS_Subset
    <2>2. QED BY <1>4, <2>1, MinMax
<1>6. last \in Covered /\ last \in lo..Len(bank) /\ DayOf(bank[last].time) <= d
    BY <1>1, <1>5 DEF UpTo
<1>7. UpTo(d) = lo..last
    <2>1. ASSUME NEW i \in lo..last PROVE i \in UpTo(d)
        <3>1. i \in 1..Len(bank) /\ last \in 1..Len(bank) /\ i <= last
            BY <1>2, <1>6
        <3>2. i \in Covered
            <4>1. last <= Max(Covered) /\ Max(Covered) \in Int /\ lo \in Int
                BY <1>1, <1>6, MinMax
            <4>2. i \in lo..Max(Covered)
                BY <3>1, <4>1
            <4>3. QED BY <1>1, <4>2
        <3>3. DayOf(bank[i].time) <= DayOf(bank[last].time) /\ DayOf(bank[i].time) \in Nat /\ DayOf(bank[last].time) \in Nat
            BY <1>1, <3>1, DaysInOrder
        <3>4. QED BY <1>6, <3>2, <3>3 DEF UpTo
    <2>2. ASSUME NEW i \in UpTo(d) PROVE i \in lo..last
        <3>1. i \in Covered /\ i <= last
            BY <1>5 DEF UpTo
        <3>2. QED BY <1>1, <1>6, <3>1
    <2>3. QED BY <2>1, <2>2
<1>8. Booked(last) = Booked(lo - 1) + SumFunctionOnSet(Deltas, lo..last)
    BY <1>1, <1>2, <1>6, BookedBetween
<1>9. SumFunctionOnSet(Signs, PostedBy(d)) = SumFunctionOnSet(Deltas, UpTo(d))
    <2> DEFINE g == [t \in PostedBy(d) |-> h[t]]
    <2>1. PostedBy(d) \subseteq Txn /\ UpTo(d) \subseteq 1..Len(bank)
        BY <1>1 DEF PostedBy, Posted, UpTo
    <2>2. IsFiniteSet(PostedBy(d)) /\ IsFiniteSet(UpTo(d)) /\ \A t \in PostedBy(d) : Signs[t] = Signed(t)
        BY <1>1, <2>1, SignsType, SpanSums
    <2>3. \A i \in UpTo(d) : Deltas[i] \in Int /\ Deltas[i] = bank[i].delta
        BY <1>1, <2>1, BookType
    <2>4. \A t \in Posted : h[t] \in Covered /\ transactions[t].day = DayOf(bank[h[t]].time) /\ Signed(t) = bank[h[t]].delta
        BY DEF IsMove, Bijection, Injection
    <2>5. \A t \in PostedBy(d) : g[t] \in UpTo(d) /\ Signs[t] = Deltas[g[t]]
        BY <2>2, <2>3, <2>4 DEF PostedBy, UpTo
    <2>6. \A t, u \in PostedBy(d) : g[t] = g[u] => t = u
        BY DEF IsMove, Bijection, Injection, IsInjective, PostedBy
    <2>7. \A i \in UpTo(d) : \E t \in PostedBy(d) : g[t] = i
        <3> SUFFICES ASSUME NEW i \in UpTo(d) PROVE \E t \in PostedBy(d) : g[t] = i
            OBVIOUS
        <3>1. PICK t \in Posted : h[t] = i
            BY DEF IsMove, Bijection, Surjection, UpTo
        <3>2. t \in PostedBy(d)
            BY <2>4, <3>1 DEF PostedBy, UpTo
        <3>3. QED BY <3>1, <3>2
    <2>8. g \in [PostedBy(d) -> UpTo(d)]
        BY <2>5
    <2> HIDE DEF g
    <2>9. g \in Bijection(PostedBy(d), UpTo(d))
        BY <2>6, <2>7, <2>8 DEF Bijection, Injection, Surjection, IsInjective
    <2>10. QED BY <2>2, <2>3, <2>5, <2>9, SumRenamed
<1>10. QED BY <1>3, <1>4, <1>7, <1>8, <1>9

-----------------------------------------------------------------------------
(* The entries made by hand on the account: not since the anchor, and      *)
(* since and up to a day.                                                  *)
EntriesBefore    == {t \in Manual : transactions[t].account = Account /\ ~SinceAnchor(t)}
EntriesSince(day) ==
    {t \in Manual : transactions[t].account = Account /\ transactions[t].day <= day /\ SinceAnchor(t)}

(* The rows up to the anchor, and those up to a day.                       *)
LEMMA RowsUpTo ==
    ASSUME Typed, Batched, Sound, NEW order, NEW n, IsListing(order, n), NEW p, IsPlace(order, n, p),
           NEW d \in Int, transactions[Anchor].day <= d,
           NEW m \in 0..n, \A i \in 1..n : i <= m <=> transactions[order[i]].day <= d
    PROVE  /\ FirstRows(order, p) = {Anchor} \cup EntriesBefore
           /\ FirstRows(order, m) = PostedBy(d) \cup (EntriesSince(d) \cup EntriesBefore)
<1>1. PICK a : a = Anchor
    OBVIOUS
<1>2. /\ n \in Nat /\ p \in 1..n /\ a \in Posted /\ a \in OfAccount
      /\ \A i \in 1..n : order[i] \in OfAccount
      /\ \A t \in OfAccount : \E i \in 1..n : order[i] = t
      /\ \A i \in 1..n : i <= p <=> (order[i] = a \/ (order[i] \in Manual /\ ~SinceAnchor(order[i])))
    BY <1>1, OneAnchor DEF IsListing, IsPlace, Bijection, Injection, Surjection, Batched, OfAccount, Posted
<1>3. /\ \A i \in 1..n : i \in 1..p <=> i <= p
      /\ \A i \in 1..n : i \in 1..m <=> i <= m
      /\ 1..p \subseteq 1..n /\ 1..m \subseteq 1..n
    BY <1>2
<1>4. FirstRows(order, p) \subseteq {a} \cup EntriesBefore
    BY <1>2, <1>3 DEF FirstRows, EntriesBefore, OfAccount
<1>5. {a} \cup EntriesBefore \subseteq FirstRows(order, p)
    <2> SUFFICES ASSUME NEW t \in {a} \cup EntriesBefore PROVE t \in FirstRows(order, p)
        OBVIOUS
    <2>1. t \in OfAccount
        BY <1>2 DEF EntriesBefore, OfAccount, Manual
    <2>2. PICK i \in 1..n : order[i] = t
        BY <1>2, <2>1
    <2>3. i \in 1..p
        BY <1>2, <1>3, <2>2 DEF EntriesBefore
    <2>4. QED BY <2>2, <2>3 DEF FirstRows
<1>6. \A t \in OfAccount : t \in FirstRows(order, m) <=> transactions[t].day <= d
    <2>1. ASSUME NEW t \in OfAccount, transactions[t].day <= d PROVE t \in FirstRows(order, m)
        <3>1. PICK i \in 1..n : order[i] = t
            BY <1>2
        <3>2. QED BY <1>3, <2>1, <3>1 DEF FirstRows
    <2>2. ASSUME NEW t \in FirstRows(order, m) PROVE transactions[t].day <= d
        BY <1>3 DEF FirstRows
    <2>3. QED BY <2>1, <2>2
<1>7. FirstRows(order, m) \subseteq OfAccount
    BY <1>2, <1>3 DEF FirstRows
<1>8. \A t \in EntriesBefore : transactions[t].day <= d
    <2> SUFFICES ASSUME NEW t \in EntriesBefore PROVE transactions[t].day <= d
        OBVIOUS
    <2>1. t \in Txn /\ a \in Txn /\ ~(transactions[t].day > transactions[a].day)
        BY <1>1, <1>2 DEF EntriesBefore, SinceAnchor, Manual, Posted
    <2>2. transactions[t].day \in Nat /\ transactions[a].day \in Nat
        BY <2>1, RowOrder
    <2>3. QED BY <1>1, <2>1, <2>2
<1>9. FirstRows(order, m) \subseteq PostedBy(d) \cup (EntriesSince(d) \cup EntriesBefore)
    BY <1>6, <1>7 DEF PostedBy, EntriesSince, EntriesBefore, Manual, OfAccount
<1>10. PostedBy(d) \cup (EntriesSince(d) \cup EntriesBefore) \subseteq FirstRows(order, m)
    <2> SUFFICES ASSUME NEW t \in PostedBy(d) \cup (EntriesSince(d) \cup EntriesBefore) PROVE t \in FirstRows(order, m)
        OBVIOUS
    <2>1. t \in OfAccount /\ transactions[t].day <= d
        BY <1>8 DEF PostedBy, EntriesSince, EntriesBefore, OfAccount, Manual, Posted, Batched
    <2>2. QED BY <1>6, <2>1
<1>11. QED BY <1>1, <1>4, <1>5, <1>9, <1>10

LEMMA Cancels ==
    \A b, x, y, s, e \in Int : ((b + x) - (x + e)) + (y + (s + e)) = (b + y) + s
OBVIOUS

(* The balance shown at the last row of a day is what the account is worth *)
(* at the end of the day.                                                  *)
LEMMA ShownIsWorth ==
    ASSUME Typed, Ledger, Batched, Sourced, Sound, NEW order, NEW n, IsListing(order, n),
           NEW d \in Int, transactions[Anchor].day <= d,
           NEW m \in 0..n, \A i \in 1..n : i <= m <=> transactions[order[i]].day <= d
    PROVE  RunningBalance(order, m) = Worth(d)
<1>1. PICK a : a = Anchor
    OBVIOUS
<1>2. PICK h : IsMove(h)
    BY Moves
<1>3. PICK lo : lo = Min(Covered)
    OBVIOUS
<1>4. PICK p : IsPlace(order, n, p)
    BY AnchorPlace
<1>5. /\ a \in Posted /\ h[a] = lo /\ Signed(a) = bank[lo].delta
      /\ transactions[a].day = DayOf(bank[lo].time) /\ transactions[a].balance = LineOf(lo).balance
    BY <1>1, <1>2, <1>3, OneAnchor, AnchorIsFirst DEF IsMove
<1>6. /\ Booked(Max(UpTo(d))) = Booked(lo - 1) + SumFunctionOnSet(Signs, PostedBy(d))
      /\ Booked(lo) = Booked(lo - 1) + bank[lo].delta
      /\ Booked(lo - 1) \in Int /\ bank[lo].delta \in Int
    BY <1>1, <1>2, <1>3, <1>5, PostedWorth
<1>7. transactions[a].balance = Booked(lo - 1) + Signed(a)
    BY <1>3, <1>5, <1>6 DEF LineOf, Sound
<1>8. /\ p \in 0..n /\ order[p] = a /\ p = Min(Stating(order))
      /\ FirstRows(order, p) = {a} \cup EntriesBefore
      /\ FirstRows(order, m) = PostedBy(d) \cup (EntriesSince(d) \cup EntriesBefore)
    <2>1. n \in Nat
        BY DEF IsListing
    <2>2. p \in 1..n /\ order[p] = a /\ p = Min(Stating(order))
        BY <1>1, <1>4 DEF IsPlace
    <2>3. QED BY <1>1, <1>4, <2>1, <2>2, RowsUpTo
<1>9. /\ Net(order, p) = SumFunctionOnSet(Signs, {a} \cup EntriesBefore)
      /\ Net(order, m) = SumFunctionOnSet(Signs, PostedBy(d) \cup (EntriesSince(d) \cup EntriesBefore))
    BY <1>8, NetIs
<1>10. PICK x, y, s, e : /\ x = Signed(a) /\ y = SumFunctionOnSet(Signs, PostedBy(d))
                         /\ s = SumFunctionOnSet(Signs, EntriesSince(d)) /\ e = SumFunctionOnSet(Signs, EntriesBefore)
    OBVIOUS
<1>11. /\ {a} \subseteq Txn /\ PostedBy(d) \subseteq Txn /\ EntriesSince(d) \subseteq Txn /\ EntriesBefore \subseteq Txn
       /\ a \notin EntriesBefore /\ EntriesSince(d) \cap EntriesBefore = {}
       /\ PostedBy(d) \cap (EntriesSince(d) \cup EntriesBefore) = {}
    BY <1>5 DEF PostedBy, EntriesSince, EntriesBefore, Manual, Posted
<1>12. /\ x \in Int /\ y \in Int /\ s \in Int /\ e \in Int
       /\ IsFiniteSet({a}) /\ IsFiniteSet(PostedBy(d)) /\ IsFiniteSet(EntriesSince(d)) /\ IsFiniteSet(EntriesBefore)
       /\ IsFiniteSet(EntriesSince(d) \cup EntriesBefore)
       /\ \A t \in Txn : Signs[t] \in Int /\ Signs[t] = Signed(t)
    <2>1. EntriesSince(d) \cup EntriesBefore \subseteq Txn
        BY <1>11
    <2>2. \A t \in Txn : Signs[t] \in Int /\ Signs[t] = Signed(t)
        BY SignsType
    <2>3. QED BY <1>10, <1>11, <2>1, <2>2, SignsType
<1>13. Net(order, p) = x + e
    BY <1>9, <1>10, <1>11, <1>12, SumAdd
<1>14. Net(order, m) = y + (s + e)
    <2>1. SumFunctionOnSet(Signs, EntriesSince(d) \cup EntriesBefore) = s + e
        BY <1>10, <1>11, <1>12, SumDisjointUnion
    <2>2. SumFunctionOnSet(Signs, PostedBy(d) \cup (EntriesSince(d) \cup EntriesBefore))
             = y + SumFunctionOnSet(Signs, EntriesSince(d) \cup EntriesBefore)
        BY <1>10, <1>11, <1>12, SumDisjointUnion
    <2>3. QED BY <1>9, <2>1, <2>2
<1>15. RunningBalance(order, m) = (transactions[a].balance - Net(order, p)) + Net(order, m)
    BY <1>8 DEF RunningBalance, StartingBalance
<1>16. RunningBalance(order, m) = (Booked(lo - 1) + y) + s
    BY <1>6, <1>7, <1>10, <1>12, <1>13, <1>14, <1>15, Cancels
<1>17. Worth(d) = Booked(Max(UpTo(d))) + s
    <2> DEFINE g == [t \in EntriesSince(d) |-> Signed(t)]
    <2>1. \A t \in EntriesSince(d) : Signs[t] \in Int /\ g[t] = Signs[t] /\ g[t] \in Int
        BY <1>11, <1>12
    <2>2. Worth(d) = Booked(Max(UpTo(d))) + SumFunctionOnSet(g, EntriesSince(d))
        BY DEF Worth, UpTo, EntriesSince, SumOf
    <2> HIDE DEF g
    <2>3. SumFunctionOnSet(g, EntriesSince(d)) = s
        BY <1>10, <1>12, <2>1, SumEqual
    <2>4. QED BY <2>2, <2>3
<1>18. QED BY <1>6, <1>10, <1>16, <1>17

-----------------------------------------------------------------------------
LEMMA StatementShowsBank ==
    ASSUME Typed, Ledger, Batched, Sourced, Sound, NEW order \in Orders(Account),
           NEW from \in Days, NEW to \in Days,
           \E n \in DOMAIN order : transactions[order[n]].day \in from..to, transactions[Anchor].day <= to
    PROVE  /\ Statement(order, from, to).closing = Worth(to)
           /\ from > transactions[Anchor].day => Statement(order, from, to).opening = Worth(from - 1)
<1> DEFINE shown == {i \in DOMAIN order : transactions[order[i]].day \in from..to}
<1>1. PICK n : IsListing(order, n)
    BY OrderIs
<1>2. PICK p : IsPlace(order, n, p)
    BY <1>1, AnchorPlace
<1>3. /\ n \in Nat /\ DOMAIN order = 1..n /\ from \in Int /\ to \in Int
      /\ \A i \in 1..n : transactions[order[i]].day \in Nat /\ transactions[order[i]].batch \in Nat
      /\ \A i, j \in 1..n : i <= j => transactions[order[i]].day <= transactions[order[j]].day
    <2>1. n \in Nat /\ DOMAIN order = 1..n /\ \A i \in 1..n : order[i] \in Txn
        BY <1>1 DEF IsListing, Bijection, Injection, OfAccount
    <2>2. \A i \in 1..n : transactions[order[i]].day \in Nat /\ transactions[order[i]].batch \in Nat
        BY <2>1, RowOrder
    <2>3. ASSUME NEW i \in 1..n, NEW j \in 1..n, i <= j
          PROVE  transactions[order[i]].day <= transactions[order[j]].day
        <3>1. i = j \/ i < j
            BY <2>1, <2>3
        <3>2. i = j \/ ~Later(order[i], order[j])
            BY <1>1, <3>1 DEF IsListing
        <3>3. QED BY <2>2, <3>2 DEF Later
    <2>4. \A d \in Days : d \in Int
        BY ReportsAssumption
    <2>5. QED BY <2>1, <2>2, <2>3, <2>4
<1>4. PICK first, last : first = Min(shown) /\ last = Max(shown)
    OBVIOUS
<1>5. /\ first \in shown /\ last \in shown /\ shown # {}
      /\ \A i \in shown : first <= i /\ i <= last
    <2>1. shown \subseteq 1..n /\ shown # {}
        BY <1>3
    <2>2. IsFiniteSet(1..n) /\ 1..n \subseteq Int
        BY <1>3, FS_Interval
    <2> HIDE DEF shown
    <2>3. shown \in SUBSET Int /\ IsFiniteSet(shown)
        BY <2>1, <2>2, FS_Subset
    <2>4. QED BY <1>4, <2>1, <2>3, MinMax
<1>6. Stating(order) # {}
    <2>1. p \in DOMAIN order /\ order[p] \in Posted
        BY <1>2, <1>3, OneAnchor DEF IsPlace
    <2>2. QED BY <2>1 DEF Stating, Posted
<1>7. /\ Statement(order, from, to).closing = RunningBalance(order, last)
      /\ Statement(order, from, to).opening = RunningBalance(order, first - 1)
    BY <1>4, <1>5, <1>6 DEF Statement
<1>8. /\ first \in 1..n /\ last \in 1..n
      /\ from <= transactions[order[first]].day /\ transactions[order[first]].day <= to
      /\ from <= transactions[order[last]].day /\ transactions[order[last]].day <= to
    BY <1>3, <1>5
<1>9. \A i \in 1..n : i \in shown <=> (from <= transactions[order[i]].day /\ transactions[order[i]].day <= to)
    BY <1>3
<1> HIDE DEF shown
<1>10. ASSUME NEW i \in 1..n PROVE i <= last <=> transactions[order[i]].day <= to
    <2>1. transactions[order[i]].day \in Nat /\ transactions[order[last]].day \in Nat /\ i \in Nat /\ last \in Nat
        BY <1>3, <1>8
    <2>2. CASE i <= last
        <3>1. transactions[order[i]].day <= transactions[order[last]].day
            BY <1>3, <1>8, <2>2
        <3>2. QED BY <1>3, <1>8, <2>1, <2>2, <3>1
    <2>3. CASE ~(i <= last)
        <3>1. i \notin shown
            BY <1>5, <2>3
        <3>2. transactions[order[last]].day <= transactions[order[i]].day
            BY <1>3, <1>8, <2>1, <2>3
        <3>3. QED BY <1>3, <1>8, <1>9, <2>1, <2>3, <3>1, <3>2
    <2>4. QED BY <2>2, <2>3
<1>11. ASSUME NEW i \in 1..n PROVE i <= first - 1 <=> transactions[order[i]].day <= from - 1
    <2>1. transactions[order[i]].day \in Nat /\ transactions[order[first]].day \in Nat /\ i \in Nat /\ first \in Nat
        BY <1>3, <1>8
    <2>2. CASE i < first
        <3>1. transactions[order[i]].day <= transactions[order[first]].day
            BY <1>3, <1>8, <2>1, <2>2
        <3>2. i \notin shown
            BY <1>5, <2>1, <2>2
        <3>3. transactions[order[i]].day <= to
            BY <1>3, <1>8, <2>1, <3>1
        <3>4. ~(from <= transactions[order[i]].day)
            BY <1>9, <3>2, <3>3
        <3>5. transactions[order[i]].day <= from - 1
            BY <1>3, <2>1, <3>4
        <3>6. i <= first - 1
            BY <2>1, <2>2
        <3>7. QED BY <3>5, <3>6
    <2>3. CASE ~(i < first)
        <3>1. transactions[order[first]].day <= transactions[order[i]].day
            BY <1>3, <1>8, <2>1, <2>3
        <3>2. QED BY <1>3, <1>8, <2>1, <2>3, <3>1
    <2>4. QED BY <2>2, <2>3
<1>12. last \in 0..n /\ first - 1 \in 0..n /\ from - 1 \in Int
    BY <1>3, <1>8
<1>13. RunningBalance(order, last) = Worth(to)
    BY <1>1, <1>3, <1>10, <1>12, ShownIsWorth
<1>14. from > transactions[Anchor].day => RunningBalance(order, first - 1) = Worth(from - 1)
    <2> SUFFICES ASSUME from > transactions[Anchor].day
                 PROVE  RunningBalance(order, first - 1) = Worth(from - 1)
        OBVIOUS
    <2>1. transactions[Anchor].day \in Nat
        BY OneAnchor, RowOrder DEF Posted
    <2>2. transactions[Anchor].day <= from - 1
        BY <1>3, <2>1
    <2>3. QED BY <1>1, <1>11, <1>12, <2>2, ShownIsWorth
<1>15. QED BY <1>7, <1>13, <1>14

(* The account's statement shows the bank's balances, and the entries made *)
(* by hand since its anchor, in every window with rows and for every order *)
(* of rows of one import: fetch_transaction_statement_rows and             *)
(* build_transaction_statement, whatever was imported and entered before.  *)
(* For Equity Bank that asks that no movement was read with two texts, as  *)
(* one is that begins a statement and stands inside another (Sound).       *)
THEOREM StatementsAreTheBanks == Spec => []StatementIsTheBanks
<1>1. Init => LedgerHolds /\ Records
    BY DEF Init, LedgerHolds, Ledger, Accepted, Posted, Txn, Records, Batched, Sourced, Manual
<1>2. Typed /\ LedgerHolds /\ Records /\ [Next]_figures => LedgerHolds' /\ Records'
    BY LedgerAlways, RecordsKept
<1>3. Typed /\ LedgerHolds /\ Records => StatementIsTheBanks
    <2> SUFFICES ASSUME Typed, LedgerHolds, Records, Sound, NEW order \in Orders(Account),
                        NEW from \in Days, NEW to \in Days,
                        \E n \in DOMAIN order : transactions[order[n]].day \in from..to,
                        transactions[Anchor].day <= to
                 PROVE  /\ Statement(order, from, to).closing = Worth(to)
                        /\ from > transactions[Anchor].day => Statement(order, from, to).opening = Worth(from - 1)
        BY DEF StatementIsTheBanks
    <2>1. Ledger /\ Batched /\ Sourced
        BY DEF LedgerHolds, Records, Sound
    <2>2. QED BY <2>1, StatementShowsBank
<1>4. QED BY <1>1, <1>2, <1>3, FiguresTyped, PTL DEF Spec
=============================================================================
