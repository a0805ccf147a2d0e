-------------------------- MODULE BookBalanceProofs --------------------------
(***************************************************************************)
(* For every ledger and any statements of it, imports, manual entries and  *)
(* sub-ledgers: an opening balance is stored only when its rows are there, *)
(* each is the balance the bank had at its first row, and so an anchored   *)
(* book filed from one sequence shows what the bank shows.                 *)
(***************************************************************************)
EXTENDS BookBalance, SetSums, TLAPS

(* The shapes the proof needs, without the amounts. *)
Shape ==
    /\ upload \in [Imports -> Upload \cup {None}]
    /\ stage \in [Imports -> Stages]
    /\ batches \in [Imports -> SUBSET Books]
    /\ happened \in Nat
    /\ \A i \in Imports : stage[i] # "none" => upload[i] \in Upload

(* Of an import being inserted, the books that are not waiting have their  *)
(* rows; past inserting none is waiting.  Only a Sacco import has openings *)
(* of sub-ledgers to write.                                                *)
Filed ==
    /\ \A i \in Imports : stage[i] = "open" => provider = MentorSacco
    /\ \A i \in Imports : stage[i] \in {"insert", "open", "mark", "parsed"} =>
          /\ stage[i] # "insert" => batches[i] = {}
          /\ \A b \in Target(i) \ batches[i] : BookRows(i, b) \subseteq posted

(* Who has anchors, and of which books. *)
AnchorsOf == \A a \in anchors :
    /\ a.imp \in Imports
    /\ stage[a.imp] \in {"mark", "parsed"}
    /\ a.book \in Target(a.imp)

(* A Sacco import has its anchors when it is to be marked, a flat one when *)
(* it has been.                                                            *)
Anchored ==
    \A i \in Imports :
        stage[i] = "parsed" \/ (stage[i] = "mark" /\ provider = MentorSacco) =>
            \A b \in Target(i) : BookRows(i, b) # {} =>
                \E a \in anchors : a.imp = i /\ a.book = b

IInv == Shape /\ Filed /\ AnchorsOf /\ Anchored

-----------------------------------------------------------------------------
(* An import keeps its rows and its books while its statement stays. *)
LEMMA SameRows ==
    ASSUME NEW i, provider' = provider, upload'[i] = upload[i]
    PROVE  /\ Target(i)' = Target(i)
           /\ \A b : BookRows(i, b)' = BookRows(i, b)
  BY DEF Target, BookRows, Rows, Movement, Of, Tag

(* The opening balances written for a set of books are one of each book    *)
(* that has rows.                                                          *)
LEMMA OpeningsAre ==
    ASSUME NEW i, NEW bs
    PROVE  /\ \A a \in Openings(i, bs) : a.imp = i /\ a.book \in bs
           /\ \A b \in bs : BookRows(i, b) # {} =>
                 \E a \in Openings(i, bs) : a.imp = i /\ a.book = b
  <1>1. \A b : Derived(i, b).imp = i /\ Derived(i, b).book = b
    BY DEF Derived
  <1> QED
    BY <1>1 DEF Openings

LEMMA TargetIsBooks ==
    ASSUME NEW i, upload[i] \in Upload
    PROVE  Target(i) \subseteq Books
  BY DEF Target, Upload, Books

LEMMA InitHolds == Init => IInv
  BY DEF Init, IInv, Shape, Filed, AnchorsOf, Anchored, Stages

-----------------------------------------------------------------------------
(* Steps that leave every import as it is. *)
LEMMA OtherSteps ==
    ASSUME IInv, provider' = provider, UNCHANGED importVars, happened' \in Nat
    PROVE  IInv'
  <1>1. Shape'
    BY DEF IInv, Shape, importVars
  <1>2. \A i : Target(i)' = Target(i) /\ \A b : BookRows(i, b)' = BookRows(i, b)
    BY SameRows DEF importVars
  <1>3. Filed' /\ AnchorsOf' /\ Anchored'
    BY <1>2 DEF IInv, Filed, AnchorsOf, Anchored, importVars
  <1> QED
    BY <1>1, <1>3 DEF IInv

(* An upload concerns an import that nothing refers to yet. *)
LEMMA UploadStep ==
    ASSUME IInv, NEW i \in Imports, NEW from \in Days, NEW to \in Days,
           NEW selected \in SUBSET SubLedgers, UploadStatement(i, from, to, selected)
    PROVE  IInv'
  <1> USE DEF UploadStatement
  <1>1. /\ upload'[i] \in Upload /\ stage'[i] = "queued"
        /\ \A j \in Imports \ {i} : upload'[j] = upload[j] /\ stage'[j] = stage[j]
    BY DEF IInv, Shape, Upload
  <1>2. Shape'
    BY <1>1 DEF IInv, Shape, Stages
  <1>3. \A j \in Imports \ {i} : Target(j)' = Target(j) /\ \A b : BookRows(j, b)' = BookRows(j, b)
    BY <1>1, SameRows
  <1>4. Filed'
    BY <1>1, <1>3 DEF IInv, Filed
  <1>5. AnchorsOf'
    BY <1>1, <1>3 DEF IInv, AnchorsOf
  <1>6. Anchored'
    BY <1>1, <1>3 DEF IInv, Anchored
  <1> QED
    BY <1>2, <1>4, <1>5, <1>6 DEF IInv

LEMMA ParseStep ==
    ASSUME IInv, NEW i \in Imports, ParseStatement(i)
    PROVE  IInv'
  <1> USE DEF ParseStatement
  <1>1. \A j : Target(j)' = Target(j) /\ \A b : BookRows(j, b)' = BookRows(j, b)
    BY SameRows
  <1>2. upload[i] \in Upload /\ Target(i) \subseteq Books
    BY TargetIsBooks DEF IInv, Shape
  <1>3. /\ stage'[i] \in {"insert", "stopped"}
        /\ stage'[i] = "insert" => batches'[i] = Target(i)
        /\ \A j \in Imports \ {i} : stage'[j] = stage[j] /\ batches'[j] = batches[j]
    BY DEF IInv, Shape
  <1>4. Shape'
    BY <1>2 DEF IInv, Shape, Stages
  <1>5. Filed'
    BY <1>1, <1>3 DEF IInv, Filed
  <1>6. AnchorsOf'
    BY <1>1, <1>3 DEF IInv, AnchorsOf
  <1>7. Anchored'
    BY <1>1, <1>3 DEF IInv, Anchored
  <1> QED
    BY <1>4, <1>5, <1>6, <1>7 DEF IInv

LEMMA InsertStep ==
    ASSUME IInv, NEW i \in Imports, NEW b \in Books, InsertTransactions(i, b)
    PROVE  IInv'
  <1> USE DEF InsertTransactions
  <1>1. \A j : Target(j)' = Target(j) /\ \A c : BookRows(j, c)' = BookRows(j, c)
    BY SameRows
  <1>2. /\ stage'[i] = StageAfter(batches'[i]) /\ batches'[i] = batches[i] \ {b}
        /\ \A j \in Imports \ {i} : stage'[j] = stage[j] /\ batches'[j] = batches[j]
    BY DEF IInv, Shape
  <1>3. /\ stage'[i] \in {"insert", "open", "mark"}
        /\ stage'[i] # "insert" => batches'[i] = {}
        /\ stage'[i] = "mark" <=> stage'[i] # "insert" /\ provider # MentorSacco
    BY <1>2 DEF StageAfter
  <1>4. Shape'
    BY <1>2, <1>3 DEF IInv, Shape, Stages
  <1>5. Filed'
    <2>1. \A c \in Target(i) \ batches'[i] : BookRows(i, c) \subseteq posted'
      BY <1>2 DEF IInv, Filed
    <2> QED
      BY <1>1, <1>2, <1>3, <2>1 DEF IInv, Filed
  <1>6. AnchorsOf'
    BY <1>1, <1>2 DEF IInv, AnchorsOf
  <1>7. Anchored'
    BY <1>1, <1>2, <1>3 DEF IInv, Anchored
  <1> QED
    BY <1>4, <1>5, <1>6, <1>7 DEF IInv

LEMMA OpenStep ==
    ASSUME IInv, NEW i \in Imports, SetSubLedgerOpenings(i)
    PROVE  IInv'
  <1> USE DEF SetSubLedgerOpenings
  <1>1. \A j : Target(j)' = Target(j) /\ \A b : BookRows(j, b)' = BookRows(j, b)
    BY SameRows
  <1>2. /\ provider = MentorSacco
        /\ stage'[i] = "mark" /\ \A j \in Imports \ {i} : stage'[j] = stage[j]
        /\ Target(i) = upload[i].selected
    BY DEF IInv, Shape, Filed, Target
  <1>3. Shape'
    BY DEF IInv, Shape, Stages
  <1>4. Filed'
    BY <1>1, <1>2 DEF IInv, Filed
  <1>5. AnchorsOf'
    BY <1>1, <1>2, OpeningsAre DEF IInv, AnchorsOf
  <1>6. Anchored'
    BY <1>1, <1>2, OpeningsAre DEF IInv, Anchored
  <1> QED
    BY <1>3, <1>4, <1>5, <1>6 DEF IInv

LEMMA MarkStep ==
    ASSUME IInv, NEW i \in Imports, MarkParsed(i)
    PROVE  IInv'
  <1> USE DEF MarkParsed
  <1>1. \A j : Target(j)' = Target(j) /\ \A b : BookRows(j, b)' = BookRows(j, b)
    BY SameRows
  <1>2. stage'[i] = "parsed" /\ \A j \in Imports \ {i} : stage'[j] = stage[j]
    BY DEF IInv, Shape
  <1>3. Shape'
    BY DEF IInv, Shape, Stages
  <1>4. Filed'
    BY <1>1, <1>2 DEF IInv, Filed
  <1>5. AnchorsOf'
    <2>1. CASE provider = MentorSacco
      BY <1>1, <1>2, <2>1 DEF IInv, AnchorsOf
    <2>2. CASE provider # MentorSacco
      BY <1>1, <1>2, <2>2, OpeningsAre DEF IInv, AnchorsOf, Target
    <2> QED
      BY <2>1, <2>2
  <1>6. Anchored'
    <2>1. CASE provider = MentorSacco
      BY <1>1, <1>2, <2>1 DEF IInv, Anchored
    <2>2. CASE provider # MentorSacco
      <3>1. \A b \in Target(i) : BookRows(i, b) # {} => \E a \in anchors' : a.imp = i /\ a.book = b
        BY <2>2, OpeningsAre DEF Target
      <3> QED
        BY <1>1, <1>2, <3>1 DEF IInv, Anchored
    <2> QED
      BY <2>1, <2>2
  <1> QED
    BY <1>3, <1>4, <1>5, <1>6 DEF IInv

-----------------------------------------------------------------------------
LEMMA Inductive ==
    ASSUME IInv, [Next]_vars
    PROVE  IInv'
  <1> USE DEF importVars
  <1>1. CASE BankBooks
    BY <1>1, OtherSteps DEF BankBooks, IInv, Shape
  <1>2. CASE NextDay
    BY <1>2, OtherSteps DEF NextDay, IInv, Shape
  <1>3. ASSUME NEW i \in Imports, NEW from \in Days, NEW to \in Days,
               NEW selected \in SUBSET SubLedgers, UploadStatement(i, from, to, selected)
        PROVE  IInv'
    BY <1>3, UploadStep
  <1>4. ASSUME NEW i \in Imports, NEW b \in Books, InsertTransactions(i, b)
        PROVE  IInv'
    BY <1>4, InsertStep
  <1>5. ASSUME NEW e \in Entries, NEW day \in Days, NEW delta \in Amounts, NEW sub \in Books,
               CheckEntry(e, day, delta, sub)
        PROVE  IInv'
    BY <1>5, OtherSteps DEF CheckEntry, IInv, Shape
  <1>6. ASSUME NEW l \in SubLedgers, NEW t \in Treatment,
               CreateSubLedger(l, t) \/ UpdateSubLedger(l, t)
        PROVE  IInv'
    BY <1>6, OtherSteps DEF CreateSubLedger, UpdateSubLedger, IInv, Shape
  <1>7. CASE UNCHANGED vars
    BY <1>7, OtherSteps DEF vars, IInv, Shape
  <1>8. ASSUME NEW i \in Imports, ParseStatement(i) \/ SetSubLedgerOpenings(i) \/ MarkParsed(i)
        PROVE  IInv'
    BY <1>8, ParseStep, OpenStep, MarkStep
  <1>9. ASSUME NEW e \in Entries, InsertEntry(e)
        PROVE  IInv'
    BY <1>9, OtherSteps DEF InsertEntry, IInv, Shape
  <1>10. ASSUME NEW l \in SubLedgers, DeleteSubLedger(l)
         PROVE  IInv'
    BY <1>10, OtherSteps DEF DeleteSubLedger, IInv, Shape
  <1> QED
    BY <1>1, <1>2, <1>3, <1>4, <1>5, <1>6, <1>7, <1>8, <1>9, <1>10 DEF Next

LEMMA InvariantHolds == Spec => []IInv
  BY InitHolds, Inductive, PTL DEF Spec

(* Wherever an import stopped, an opening balance is stored only once all  *)
(* the rows of its book in the same statement are in transactions.         *)
THEOREM AnchorsAreBacked == Spec => []AnchorsFollowRows
  <1>1. IInv => AnchorsFollowRows
    BY DEF IInv, Filed, AnchorsOf, AnchorsFollowRows
  <1> QED
    BY InvariantHolds, <1>1, PTL

(* A parsed import has left an anchor for each book it has rows of: its    *)
(* period is never replayed on an older balance alone.                     *)
THEOREM ParsedLeavesAnchors == Spec => []ParsedIsAnchored
  <1>1. IInv => ParsedIsAnchored
    BY DEF IInv, Anchored, ParsedIsAnchored
  <1> QED
    BY InvariantHolds, <1>1, PTL

-----------------------------------------------------------------------------
(* The bank's movements. *)

LEMMA MovementFacts ==
    ASSUME provider \in Providers
    PROVE  /\ Len(Ledger[provider]) \in Nat /\ IsFiniteSet(Movement) /\ Movement \subseteq Nat
           /\ \A k \in Movement :
                 /\ Of(k).seq \in Sequence /\ Of(k).day \in Days /\ Of(k).delta \in Int
                 /\ Tag(k) \in Books /\ Of(k).seq \in SequencesOf(Tag(k))
           /\ \A k \in Movement : \A j \in 1..k : j \in Movement /\ Of(j).day <= Of(k).day
  <1> DEFINE L == Ledger[provider]
  <1>1. L \in Seq([seq : Sequence, day : Days, delta : Int])
    BY ConstantsAssumption
  <1>2. Len(L) \in Nat /\ DOMAIN L = 1..Len(L) /\ Movement = 1..Len(L)
    BY <1>1 DEF Movement
  <1>3. ASSUME NEW k \in Movement
        PROVE  /\ Of(k).seq \in Sequence /\ Of(k).day \in Days /\ Of(k).delta \in Int
               /\ Tag(k) \in Books /\ Of(k).seq \in SequencesOf(Tag(k))
    <2>1. Of(k) \in [seq : Sequence, day : Days, delta : Int]
      <3> DEFINE R == [seq : Sequence, day : Days, delta : Int]
      <3>1. L \in Seq(R)
        BY <1>1
      <3>2. Of(k) = L[k] /\ k \in DOMAIN L
        BY <1>2 DEF Of
      <3> HIDE DEF R, L
      <3>3. Of(k) \in R
        BY <3>1, <3>2
      <3> QED
        BY <3>3 DEF R
    <2>2. Tag(k) = BookOf[Of(k).seq] /\ Tag(k) \in Books
      BY <2>1, ConstantsAssumption DEF Tag
    <2>3. \E n \in DOMAIN Sections[provider] : Sections[provider][n] = Of(k).seq
      BY <1>2, ConstantsAssumption DEF Of
    <2> QED
      BY <2>1, <2>2, <2>3 DEF SequencesOf
  <1>4. \A k \in Movement : \A j \in 1..k : j \in Movement /\ Of(j).day <= Of(k).day
    <2> SUFFICES ASSUME NEW k \in Movement, NEW j \in 1..k
                 PROVE  j \in Movement /\ Of(j).day <= Of(k).day
      OBVIOUS
    <2>1. k \in DOMAIN L /\ j \in Movement
      BY <1>2
    <2>2. L[j].day <= L[k].day
      BY <2>1, ConstantsAssumption
    <2> QED
      BY <2>1, <2>2 DEF Of
  <1>5. IsFiniteSet(Movement)
    BY <1>2, FS_Interval
  <1>6. Movement \subseteq Nat
    BY <1>2
  <1> QED
    BY <1>2, <1>3, <1>4, <1>5, <1>6

LEMMA LeastIs ==
    ASSUME NEW S \in SUBSET Int, IsFiniteSet(S), S # {}
    PROVE  Least(S) \in S /\ \A j \in S : Least(S) <= j
  BY Extremes DEF Least

(* The first row of a book: one of the book's, and the first of its own    *)
(* sequence.                                                               *)
LEMMA FirstIs ==
    ASSUME provider \in Providers, NEW i, NEW b, BookRows(i, b) # {}
    PROVE  /\ FirstRow(i, b) \in BookRows(i, b)
           /\ \A j \in BookRows(i, b) : Of(j).seq = Of(FirstRow(i, b)).seq => FirstRow(i, b) <= j
  <1> DEFINE filled == {n \in DOMAIN Sections[provider] :
                          BookOf[Sections[provider][n]] = b /\ SectionRows(i, Sections[provider][n]) # {}}
             n0 == Least(filled)
             s == Sections[provider][n0]
  <1>1. PICK k \in Movement : k \in Rows(i) /\ Tag(k) = b
    BY DEF BookRows, Rows
  <1>2. PICK n \in DOMAIN Sections[provider] : Sections[provider][n] = Of(k).seq
    BY MovementFacts DEF SequencesOf
  <1>3. n \in filled
    BY <1>1, <1>2 DEF SectionRows, Tag
  <1>4. DOMAIN Sections[provider] \in SUBSET Int /\ IsFiniteSet(DOMAIN Sections[provider])
    <2>1. Sections[provider] \in Seq(Sequence)
      BY ConstantsAssumption
    <2>2. Len(Sections[provider]) \in Nat /\ DOMAIN Sections[provider] = 1..Len(Sections[provider])
      BY <2>1
    <2> QED
      BY <2>2, FS_Interval
  <1>5. n0 \in filled
    <2>1. filled \in SUBSET DOMAIN Sections[provider] /\ filled # {}
      BY <1>3
    <2> HIDE DEF filled
    <2>2. IsFiniteSet(filled) /\ filled \in SUBSET Int
      BY <1>4, <2>1, FS_Subset
    <2> QED
      BY <2>1, <2>2, LeastIs
  <1>6. SectionRows(i, s) # {} /\ BookOf[s] = b
    BY <1>5
  <1>7. FirstRow(i, b) = Least(SectionRows(i, s))
    BY DEF FirstRow
  <1> HIDE DEF s, n0, filled
  <1>8. SectionRows(i, s) \in SUBSET Movement
    BY DEF SectionRows, Rows
  <1>9. SectionRows(i, s) \in SUBSET Int /\ IsFiniteSet(SectionRows(i, s))
    BY <1>8, MovementFacts, FS_Subset
  <1>10. /\ FirstRow(i, b) \in SectionRows(i, s)
         /\ \A j \in SectionRows(i, s) : FirstRow(i, b) <= j
    BY <1>6, <1>7, <1>9, LeastIs
  <1> QED
    BY <1>6, <1>10 DEF SectionRows, BookRows, Tag

(* What the bank moved on a sequence among the movements of a set.         *)
Delta == [k \in Movement |-> Of(k).delta]

LEMMA DeltaSums ==
    ASSUME provider \in Providers, NEW S \in SUBSET Movement
    PROVE  /\ IsFiniteSet(S) /\ (\A k \in S : Delta[k] \in Int /\ Delta[k] = Of(k).delta)
           /\ SumFunctionOnSet(Delta, S) \in Int
           /\ SumFunction([k \in S |-> Of(k).delta]) = SumFunctionOnSet(Delta, S)
  <1>1. IsFiniteSet(S)
    BY MovementFacts, FS_Subset
  <1>2. \A k \in S : Delta[k] \in Int /\ Delta[k] = Of(k).delta
    BY MovementFacts DEF Delta
  <1>3. SumFunctionOnSet(Delta, S) \in Int
    BY <1>1, <1>2, SumType
  <1>4. SumFunction([k \in S |-> Of(k).delta]) = SumFunctionOnSet(Delta, S)
    <2> DEFINE g == [k \in S |-> Of(k).delta]
    <2>1. DOMAIN g = S /\ \A k \in S : Delta[k] \in Int /\ g[k] = Delta[k]
      BY <1>2
    <2> HIDE DEF g
    <2>2. SumFunction(g) = SumFunctionOnSet(Delta, S)
      BY <1>1, <2>1, SumOfFunction
    <2> QED
      BY <2>2 DEF g
  <1> QED
    BY <1>1, <1>2, <1>3, <1>4

(* The balance a row states, before the row itself.                        *)
Before(k) == {j \in Movement : j < k /\ Of(j).seq = Of(k).seq}

LEMMA BalanceBefore ==
    ASSUME provider \in Providers, NEW k \in Movement
    PROVE  /\ BalanceAfter(k) \in Int
           /\ BalanceAfter(k) - Of(k).delta = Start[Of(k).seq] + SumFunctionOnSet(Delta, Before(k))
           /\ Start[Of(k).seq] \in Int
  <1> DEFINE upTo == {j \in 1..k : Of(j).seq = Of(k).seq}
  <1>1. upTo \in SUBSET Movement /\ k \in upTo /\ upTo \ {k} = Before(k) /\ Before(k) \in SUBSET Movement
    <2>1. k \in Nat /\ k \in 1..k
      BY MovementFacts DEF Movement
    <2>2. \A j \in 1..k : j \in Movement
      BY MovementFacts
    <2>3. \A j \in Movement : j < k => j \in 1..k
      BY <2>1 DEF Movement
    <2>4. upTo \in SUBSET Movement /\ k \in upTo /\ Before(k) \in SUBSET Movement
      BY <2>1, <2>2 DEF Before
    <2>5. ASSUME NEW j PROVE j \in upTo \ {k} <=> j \in Before(k)
      <3>1. CASE j \in upTo \ {k}
        <4>1. j \in 1..k /\ j # k /\ j \in Movement /\ Of(j).seq = Of(k).seq
          BY <2>2, <3>1
        <4>2. j < k
          BY <2>1, <4>1
        <4> QED
          BY <3>1, <4>1, <4>2 DEF Before
      <3>2. CASE j \in Before(k)
        <4>1. j \in Movement /\ j < k /\ Of(j).seq = Of(k).seq
          BY <3>2 DEF Before
        <4>2. j \in 1..k /\ j # k
          BY <2>1, <2>3, <4>1
        <4> QED
          BY <3>2, <4>1, <4>2
      <3> QED
        BY <3>1, <3>2
    <2> QED
      BY <2>4, <2>5
  <1>2. BalanceAfter(k) = Start[Of(k).seq] + SumFunction([j \in upTo |-> Of(j).delta])
    BY DEF BalanceAfter
  <1> HIDE DEF upTo
  <1>3. /\ SumFunction([j \in upTo |-> Of(j).delta]) = SumFunctionOnSet(Delta, upTo)
        /\ SumFunctionOnSet(Delta, upTo) \in Int
    BY <1>1, DeltaSums
  <1>4. SumFunctionOnSet(Delta, upTo) = Delta[k] + SumFunctionOnSet(Delta, upTo \ {k})
    <2>1. IsFiniteSet(upTo) /\ \A j \in upTo : Delta[j] \in Int
      BY <1>1, DeltaSums
    <2> QED
      BY <1>1, <2>1, SumRemove
  <1>5. Delta[k] = Of(k).delta /\ Of(k).delta \in Int /\ SumFunctionOnSet(Delta, Before(k)) \in Int
    BY <1>1, DeltaSums, MovementFacts
  <1>6. Start[Of(k).seq] \in Int
    BY MovementFacts, ConstantsAssumption
  <1>7. \A a, b, c \in Int : a + (b + c) \in Int /\ (a + (b + c)) - b = a + c
    OBVIOUS
  <1>8. BalanceAfter(k) = Start[Of(k).seq] + (Of(k).delta + SumFunctionOnSet(Delta, Before(k)))
    BY <1>1, <1>2, <1>3, <1>4, <1>5
  <1> QED
    BY <1>5, <1>6, <1>7, <1>8

-----------------------------------------------------------------------------
(* What the amounts rest on.  The bank has booked every movement of the    *)
(* days before today, so a statement has all those of the days before its  *)
(* last; an anchor is the opening balance of its book's rows; an entry     *)
(* checked while there were sub-ledgers is of one.                         *)
Booked == \A k \in Movement : Of(k).day < today => k <= happened

Uploaded == \A i \in Imports : stage[i] # "none" =>
    /\ upload[i].from <= upload[i].to
    /\ \A k \in Movement : Of(k).day < upload[i].to => k <= upload[i].cut

Derivations == \A a \in anchors :
    a = Derived(a.imp, a.book) /\ BookRows(a.imp, a.book) # {}

Entered == \A e \in Entries :
    /\ entryStage[e] \in {"checked", "made"} => entry[e] \in Entry
    /\ entryStage[e] = "checked" /\ e \notin bare => entry[e].sub \in SubLedgers

Amounted == TypeOK /\ Booked /\ Uploaded /\ Derivations /\ Entered

LEMMA DerivedIs ==
    ASSUME provider \in Providers, NEW i \in Imports, NEW b \in Books, BookRows(i, b) # {}
    PROVE  Derived(i, b) \in Anchor
  <1>1. FirstRow(i, b) \in Movement
    BY FirstIs DEF BookRows, Rows
  <1>2. Of(FirstRow(i, b)).day \in Days /\ Of(FirstRow(i, b)).delta \in Int
    BY <1>1, MovementFacts
  <1>3. BalanceAfter(FirstRow(i, b)) \in Int
    BY <1>1, BalanceBefore
  <1> QED
    BY <1>2, <1>3 DEF Derived, Anchor

(* The opening balances of an import stay while its statement does.        *)
LEMMA SameDerived ==
    ASSUME NEW i, provider' = provider, upload'[i] = upload[i], NEW b
    PROVE  Derived(i, b)' = Derived(i, b)
  <1>1. \A k : Of(k)' = Of(k)
    BY DEF Of
  <1>2. \A s : SectionRows(i, s)' = SectionRows(i, s)
    BY DEF SectionRows, Rows, Movement, Of
  <1>3. FirstRow(i, b)' = FirstRow(i, b)
    <2> DEFINE filled == {n \in DOMAIN Sections[provider] :
                            BookOf[Sections[provider][n]] = b /\ SectionRows(i, Sections[provider][n]) # {}}
    <2>1. filled' = filled
      BY <1>2
    <2>2. FirstRow(i, b) = Least(SectionRows(i, Sections[provider][Least(filled)]))
      BY DEF FirstRow
    <2>3. FirstRow(i, b)' = Least(SectionRows(i, Sections[provider][Least(filled)]))'
      BY DEF FirstRow
    <2> HIDE DEF filled
    <2>4. Least(filled)' = Least(filled)
      BY <2>1
    <2>5. SectionRows(i, Sections[provider][Least(filled)])' = SectionRows(i, Sections[provider][Least(filled)])
      BY <1>2, <2>4
    <2> QED
      BY <2>2, <2>3, <2>5
  <1>4. \A k : BalanceAfter(k)' = BalanceAfter(k)
    <2> TAKE k
    <2> DEFINE upTo == {j \in 1..k : Of(j).seq = Of(k).seq}
               moved == [j \in upTo |-> Of(j).delta]
    <2>1. upTo' = upTo
      BY <1>1
    <2>2. moved' = moved
      BY <1>1, <2>1
    <2>3. BalanceAfter(k) = Start[Of(k).seq] + SumFunction(moved)
      BY DEF BalanceAfter
    <2>4. BalanceAfter(k)' = Start[Of(k)'.seq] + SumFunction(moved)'
      BY DEF BalanceAfter
    <2> HIDE DEF moved
    <2> QED
      BY <1>1, <2>2, <2>3, <2>4
  <1>5. PICK f : f = FirstRow(i, b)
    OBVIOUS
  <1>6. FirstRow(i, b)' = f /\ BalanceAfter(f)' = BalanceAfter(f) /\ Of(f)' = Of(f)
    BY <1>1, <1>3, <1>4, <1>5
  <1>7. Derived(i, b) = [imp |-> i, book |-> b, day |-> Of(f).day, opening |-> BalanceAfter(f) - Of(f).delta]
    BY <1>5 DEF Derived
  <1>8. Derived(i, b)' = [imp |-> i, book |-> b, day |-> Of(f)'.day, opening |-> BalanceAfter(f)' - Of(f)'.delta]
    BY <1>6 DEF Derived
  <1> QED
    BY <1>6, <1>7, <1>8

LEMMA InitAmounted == Init => Amounted
  <1> SUFFICES ASSUME Init PROVE Amounted
    OBVIOUS
  <1>1. provider \in Providers /\ Len(Ledger[provider]) \in Nat
    BY MovementFacts DEF Init
  <1>2. TypeOK
    <2>1. today \in Days /\ happened \in 0..Len(Ledger[provider]) /\ edits \in 0..MaxEdits
      BY <1>1, ConstantsAssumption DEF Init, Days
    <2>2. treatment \in [SubLedgers -> Treatment \cup {None}]
      BY ConstantsAssumption DEF Init
    <2>3. /\ upload \in [Imports -> Upload \cup {None}] /\ created \in [Imports -> Nat]
          /\ stage \in [Imports -> Stages] /\ batches \in [Imports -> SUBSET Books]
          /\ posted \subseteq Movement /\ anchors \subseteq Anchor
      BY DEF Init, Stages
    <2>4. /\ entry \in [Entries -> Entry \cup {None}] /\ bare \subseteq Entries
          /\ entryStage \in [Entries -> {"none", "checked", "made", "refused"}]
      BY DEF Init
    <2> QED
      BY <1>1, <2>1, <2>2, <2>3, <2>4 DEF TypeOK
  <1>3. Booked
    BY <1>1, MovementFacts DEF Init, Booked, Days
  <1>4. Uploaded /\ Derivations /\ Entered
    BY DEF Init, Uploaded, Derivations, Entered
  <1> QED
    BY <1>2, <1>3, <1>4 DEF Amounted

(* Steps that leave the imports as they are. *)
LEMMA SameImports ==
    ASSUME Amounted, provider' = provider, UNCHANGED importVars
    PROVE  Uploaded' /\ Derivations'
  <1>1. Uploaded'
    BY DEF Amounted, Uploaded, importVars, Movement, Of
  <1>2. \A a \in anchors : /\ BookRows(a.imp, a.book)' = BookRows(a.imp, a.book)
                           /\ Derived(a.imp, a.book)' = Derived(a.imp, a.book)
    BY SameRows, SameDerived DEF importVars
  <1>3. Derivations'
    BY <1>2 DEF Amounted, Derivations, importVars
  <1> QED
    BY <1>1, <1>3

LEMMA BankAmounted ==
    ASSUME Amounted, BankBooks \/ NextDay
    PROVE  Amounted'
  <1>1. /\ provider' = provider /\ UNCHANGED importVars
        /\ UNCHANGED <<treatment, entry, entryStage, bare, edits>>
    BY DEF BankBooks, NextDay, entryVars
  <1>2. provider \in Providers /\ today \in Days /\ happened \in 0..Len(Ledger[provider])
    BY DEF Amounted, TypeOK
  <1>3. Len(Ledger[provider]) \in Nat /\ Movement = 1..Len(Ledger[provider]) /\ Movement \subseteq Nat
    BY <1>2, MovementFacts DEF Movement
  <1>4. today' \in Days /\ happened' \in 0..Len(Ledger[provider])
    <2>1. LastDay \in Nat \ {0} /\ today \in 1..LastDay /\ Days = 1..LastDay
      BY <1>2, ConstantsAssumption DEF Days
    <2>2. CASE BankBooks
      BY <1>2, <1>3, <2>2 DEF BankBooks
    <2>3. CASE NextDay
      BY <1>2, <2>1, <2>3 DEF NextDay
    <2> QED
      BY <2>2, <2>3
  <1>5. TypeOK'
    BY <1>1, <1>4 DEF Amounted, TypeOK, importVars, Movement
  <1>6. Booked'
    <2> SUFFICES ASSUME NEW k \in Movement, Of(k).day < today' PROVE k <= happened'
      BY <1>1 DEF Booked, Movement, Of
    <2>0. Of(k).day \in Int /\ today \in Int /\ k \in Int /\ happened \in Int
      BY <1>2, <1>3, MovementFacts DEF Days
    <2>1. CASE Of(k).day < today
      BY <2>0, <2>1 DEF Amounted, Booked, BankBooks, NextDay
    <2>2. CASE Of(k).day >= today
      <3>1. NextDay /\ Of(k).day = today
        BY <2>0, <2>2 DEF BankBooks, NextDay
      <3>2. SUFFICES ASSUME k > happened PROVE FALSE
        BY <2>0, <3>1 DEF NextDay
      <3>3. happened + 1 \in 1..k /\ happened < Len(Ledger[provider])
        BY <1>2, <1>3, <2>0, <3>2
      <3>4. Of(happened + 1).day <= Of(k).day /\ happened + 1 \in Movement
        BY <1>2, <3>3, MovementFacts
      <3>5. Of(happened + 1).day > today /\ Of(happened + 1).day \in Int
        BY <1>2, <3>1, <3>3, <3>4, MovementFacts DEF NextDay, Days
      <3> QED
        BY <2>0, <3>1, <3>4, <3>5
    <2> QED
      BY <2>0, <2>1, <2>2
  <1>7. Entered'
    BY <1>1 DEF Amounted, Entered
  <1> QED
    BY <1>1, <1>5, <1>6, <1>7, SameImports DEF Amounted

LEMMA EntryAmounted ==
    ASSUME Amounted, NEW e \in Entries,
           \/ \E day \in Days, delta \in Amounts, sub \in Books : CheckEntry(e, day, delta, sub)
           \/ InsertEntry(e)
    PROVE  Amounted'
  <1>1. UNCHANGED <<provider, today, happened, importVars, treatment, edits>>
    BY DEF CheckEntry, InsertEntry
  <1>2. /\ entry \in [Entries -> Entry \cup {None}] /\ bare \subseteq Entries
        /\ entryStage \in [Entries -> {"none", "checked", "made", "refused"}]
    BY DEF Amounted, TypeOK
  <1>3. TypeOK' /\ Entered'
    <2>1. ASSUME NEW day \in Days, NEW delta \in Amounts, NEW sub \in Books,
                 CheckEntry(e, day, delta, sub)
          PROVE  TypeOK' /\ Entered'
      <3> DEFINE new == [day |-> day, delta |-> delta, sub |-> sub]
      <3>1. new \in Entry
        BY ConstantsAssumption DEF Entry
      <3>2. entry' = [entry EXCEPT ![e] = new] /\ entryStage' = [entryStage EXCEPT ![e] = "checked"]
        BY <2>1 DEF CheckEntry
      <3>3. bare' \subseteq Entries /\ (Live = {} => e \in bare') /\ bare \subseteq bare'
        BY <1>2, <2>1 DEF CheckEntry
      <3>4. Live # {} => new.sub \in SubLedgers
        BY <2>1 DEF CheckEntry, Admissible, Live
      <3> HIDE DEF new
      <3>5. /\ entry' \in [Entries -> Entry \cup {None}]
            /\ entryStage' \in [Entries -> {"none", "checked", "made", "refused"}]
        BY <1>2, <3>1, <3>2
      <3>6. TypeOK'
        BY <1>1, <3>3, <3>5 DEF Amounted, TypeOK, importVars, Movement
      <3>7. ASSUME NEW f \in Entries
            PROVE  /\ entryStage'[f] \in {"checked", "made"} => entry'[f] \in Entry
                   /\ entryStage'[f] = "checked" /\ f \notin bare' => entry'[f].sub \in SubLedgers
        <4>1. CASE f = e
          BY <1>2, <3>1, <3>2, <3>3, <3>4, <4>1
        <4>2. CASE f # e
          <5>1. entry'[f] = entry[f] /\ entryStage'[f] = entryStage[f]
            BY <1>2, <3>2, <4>2
          <5> QED
            BY <3>3, <5>1 DEF Amounted, Entered
        <4> QED
          BY <4>1, <4>2
      <3>8. Entered'
        BY <3>7 DEF Entered
      <3> QED
        BY <3>6, <3>8
    <2>2. CASE InsertEntry(e)
      <3>1. /\ entryStage[e] = "checked" /\ UNCHANGED <<entry, bare>>
            /\ entryStage' \in [Entries -> {"none", "checked", "made", "refused"}]
            /\ entryStage'[e] \in {"made", "refused"}
            /\ \A f \in Entries : f # e => entryStage'[f] = entryStage[f]
        BY <1>2, <2>2 DEF InsertEntry
      <3>2. TypeOK'
        BY <1>1, <3>1 DEF Amounted, TypeOK, importVars, Movement
      <3>3. Entered'
        BY <3>1 DEF Amounted, Entered
      <3> QED
        BY <3>2, <3>3
    <2> QED
      BY <2>1, <2>2
  <1>4. Booked'
    BY <1>1 DEF Amounted, Booked, Movement, Of
  <1> QED
    BY <1>1, <1>3, <1>4, SameImports DEF Amounted

LEMMA SubLedgerAmounted ==
    ASSUME Amounted, NEW l \in SubLedgers,
           DeleteSubLedger(l) \/ \E t \in Treatment : CreateSubLedger(l, t) \/ UpdateSubLedger(l, t)
    PROVE  Amounted'
  <1>1. UNCHANGED <<provider, today, happened, importVars, entryVars>>
    BY DEF CreateSubLedger, UpdateSubLedger, DeleteSubLedger
  <1>2. treatment' \in [SubLedgers -> Treatment \cup {None}] /\ edits' \in 0..MaxEdits
    <2>1. edits \in 0..MaxEdits /\ edits < MaxEdits /\ edits' = edits + 1
      BY DEF Amounted, TypeOK, CreateSubLedger, UpdateSubLedger, DeleteSubLedger, Edit
    <2>2. edits' \in 0..MaxEdits
      BY <2>1, ConstantsAssumption
    <2>3. treatment \in [SubLedgers -> Treatment \cup {None}]
      BY DEF Amounted, TypeOK
    <2>4. treatment' \in [SubLedgers -> Treatment \cup {None}]
      BY <2>3 DEF CreateSubLedger, UpdateSubLedger, DeleteSubLedger
    <2> QED
      BY <2>2, <2>4
  <1>3. TypeOK'
    BY <1>1, <1>2 DEF Amounted, TypeOK, importVars, entryVars, Movement
  <1>4. Booked' /\ Entered'
    BY <1>1 DEF Amounted, Booked, Movement, Of, Entered, entryVars
  <1> QED
    BY <1>1, <1>3, <1>4, SameImports DEF Amounted

(* The steps of an import: what they leave alone, and so what is left to   *)
(* show.                                                                   *)
LEMMA ImportAmounted ==
    ASSUME IInv, Amounted, NEW i \in Imports,
           UNCHANGED <<provider, today, happened, treatment, entryVars, edits>>,
           TypeOK', Uploaded', Derivations'
    PROVE  Amounted'
  <1>1. Booked' /\ Entered'
    BY DEF Amounted, Booked, Movement, Of, Entered, entryVars
  <1> QED
    BY <1>1 DEF Amounted

LEMMA UploadAmounted ==
    ASSUME IInv, Amounted, NEW i \in Imports, NEW from \in Days, NEW to \in Days,
           NEW selected \in SUBSET SubLedgers, UploadStatement(i, from, to, selected)
    PROVE  Amounted'
  <1> DEFINE new == [from |-> from, to |-> to, cut |-> happened, selected |-> selected]
  <1>1. /\ UNCHANGED <<provider, today, happened, batches, posted, anchors, treatment, entryVars, edits>>
        /\ upload' = [upload EXCEPT ![i] = new] /\ created' = [created EXCEPT ![i] = Rank]
        /\ stage' = [stage EXCEPT ![i] = "queued"] /\ stage[i] = "none" /\ from <= to /\ to <= today
    BY DEF UploadStatement
  <1>2. /\ upload \in [Imports -> Upload \cup {None}] /\ created \in [Imports -> Nat]
        /\ stage \in [Imports -> Stages] /\ happened \in 0..Len(Ledger[provider]) /\ today \in Days
        /\ provider \in Providers
    BY DEF Amounted, TypeOK
  <1>3. new \in Upload
    <2>1. happened \in Nat
      BY <1>2, MovementFacts
    <2> QED
      BY <2>1 DEF Upload
  <1>4. Rank \in Nat
    <2>1. {j \in Imports : created[j] # 0} \in SUBSET Imports
      OBVIOUS
    <2>2. Cardinality({j \in Imports : created[j] # 0}) \in Nat
      BY <2>1, FiniteTables, FS_Subset, FS_CardinalityType
    <2> QED
      BY <2>2 DEF Rank
  <1>5. new.from = from /\ new.to = to /\ new.cut = happened
    OBVIOUS
  <1> HIDE DEF new
  <1>6. TypeOK'
    <2>1. /\ upload' \in [Imports -> Upload \cup {None}] /\ created' \in [Imports -> Nat]
          /\ stage' \in [Imports -> Stages]
      BY <1>1, <1>2, <1>3, <1>4 DEF Stages
    <2> QED
      BY <1>1, <2>1 DEF Amounted, TypeOK, Movement, entryVars
  <1>7. Uploaded'
    <2> SUFFICES ASSUME NEW j \in Imports, stage'[j] # "none"
                 PROVE  /\ upload'[j].from <= upload'[j].to
                        /\ \A k \in Movement : Of(k).day < upload'[j].to => k <= upload'[j].cut
      BY <1>1 DEF Uploaded, Movement, Of
    <2>1. CASE j = i
      <3>1. upload'[i] = new
        BY <1>1, <1>2
      <3>2. ASSUME NEW k \in Movement, Of(k).day < to PROVE k <= happened
        <4>1. Of(k).day \in Int /\ to \in Int /\ today \in Int
          BY <1>2, MovementFacts DEF Days
        <4>2. Of(k).day < today
          BY <1>1, <3>2, <4>1
        <4> QED
          BY <4>2 DEF Amounted, Booked
      <3> QED
        BY <1>1, <1>5, <2>1, <3>1, <3>2
    <2>2. CASE j # i
      <3>1. upload'[j] = upload[j] /\ stage[j] # "none"
        BY <1>1, <1>2, <2>2
      <3> QED
        BY <3>1 DEF Amounted, Uploaded
    <2> QED
      BY <2>1, <2>2
  <1>8. Derivations'
    <2>1. ASSUME NEW a \in anchors PROVE a = Derived(a.imp, a.book)' /\ BookRows(a.imp, a.book)' # {}
      <3>1. a.imp \in Imports /\ a.imp # i
        BY <1>1 DEF IInv, AnchorsOf
      <3>2. upload'[a.imp] = upload[a.imp]
        BY <1>1, <1>2, <3>1
      <3>3. /\ Derived(a.imp, a.book)' = Derived(a.imp, a.book)
            /\ BookRows(a.imp, a.book)' = BookRows(a.imp, a.book)
        BY <1>1, <3>2, SameRows, SameDerived
      <3> QED
        BY <3>3 DEF Amounted, Derivations
    <2> QED
      BY <1>1, <2>1 DEF Derivations
  <1> QED
    BY <1>1, <1>6, <1>7, <1>8, ImportAmounted

(* The worker's steps: rows of the ledger, and openings of books with rows.*)
LEMMA WorkerAmounted ==
    ASSUME IInv, Amounted, NEW i \in Imports,
           UNCHANGED <<provider, today, happened, upload, created, treatment, entryVars, edits>>,
           stage[i] # "none", stage' \in [Imports -> Stages],
           \A j \in Imports : stage'[j] # "none" => stage[j] # "none",
           batches' \in [Imports -> SUBSET Books], posted' \subseteq Movement,
           NEW bs \in SUBSET Books, anchors' \subseteq anchors \cup Openings(i, bs)
    PROVE  Amounted'
  <1>1. \A a \in Openings(i, bs) :
            /\ a \in Anchor /\ a = Derived(a.imp, a.book) /\ BookRows(a.imp, a.book) # {}
    <2> SUFFICES ASSUME NEW b \in bs, BookRows(i, b) # {}
                 PROVE  /\ Derived(i, b) \in Anchor
                        /\ Derived(i, b).imp = i /\ Derived(i, b).book = b
      BY DEF Openings
    <2>1. provider \in Providers
      BY DEF Amounted, TypeOK
    <2>2. Derived(i, b) \in Anchor
      BY <2>1, DerivedIs
    <2> QED
      BY <2>2 DEF Derived
  <1>2. TypeOK'
    BY <1>1 DEF Amounted, TypeOK, Movement, entryVars
  <1>3. Uploaded'
    BY DEF Amounted, Uploaded, Movement, Of
  <1>4. Derivations'
    <2>1. ASSUME NEW a \in anchors' PROVE a = Derived(a.imp, a.book)' /\ BookRows(a.imp, a.book)' # {}
      <3>1. a = Derived(a.imp, a.book) /\ BookRows(a.imp, a.book) # {}
        BY <1>1 DEF Amounted, Derivations
      <3>2. /\ Derived(a.imp, a.book)' = Derived(a.imp, a.book)
            /\ BookRows(a.imp, a.book)' = BookRows(a.imp, a.book)
        BY SameRows, SameDerived
      <3> QED
        BY <3>1, <3>2
    <2> QED
      BY <2>1 DEF Derivations
  <1> QED
    BY <1>2, <1>3, <1>4, ImportAmounted

LEMMA AmountedNext ==
    ASSUME IInv, Amounted, [Next]_vars
    PROVE  Amounted'
  <1>0. /\ stage \in [Imports -> Stages] /\ batches \in [Imports -> SUBSET Books]
        /\ posted \subseteq Movement /\ \A i \in Imports, b \in Books : BookRows(i, b) \subseteq Movement
    BY DEF Amounted, TypeOK, BookRows, Rows
  <1>1. ASSUME NEW i \in Imports, ParseStatement(i) PROVE Amounted'
    <2>1. /\ UNCHANGED <<provider, today, happened, upload, created, posted, anchors, treatment, entryVars, edits>>
          /\ stage[i] = "queued" /\ stage' \in [Imports -> Stages]
          /\ \A j \in Imports : stage'[j] # "none" => stage[j] # "none"
      BY <1>0, <1>1 DEF ParseStatement, Stages
    <2>2. batches' \in [Imports -> SUBSET Books]
      <3>1. upload[i] \in Upload
        BY <2>1 DEF IInv, Shape
      <3>2. Target(i) \subseteq Books
        BY <3>1, TargetIsBooks
      <3> QED
        BY <1>0, <1>1, <3>2 DEF ParseStatement
    <2>3. {} \in SUBSET Books /\ anchors' \subseteq anchors \cup Openings(i, {})
      BY <2>1
    <2> QED
      BY <1>0, <2>1, <2>2, <2>3, WorkerAmounted
  <1>2. ASSUME NEW i \in Imports, NEW b \in Books, InsertTransactions(i, b) PROVE Amounted'
    <2>1. /\ UNCHANGED <<provider, today, happened, upload, created, anchors, treatment, entryVars, edits>>
          /\ stage[i] = "insert" /\ stage' \in [Imports -> Stages]
          /\ \A j \in Imports : stage'[j] # "none" => stage[j] # "none"
      <3>1. StageAfter(batches[i] \ {b}) \in Stages
        BY DEF StageAfter, Stages
      <3> QED
        BY <1>0, <1>2, <3>1 DEF InsertTransactions
    <2>2. batches' \in [Imports -> SUBSET Books] /\ posted' \subseteq Movement
      BY <1>0, <1>2 DEF InsertTransactions
    <2>3. {} \in SUBSET Books /\ anchors' \subseteq anchors \cup Openings(i, {})
      BY <2>1
    <2> QED
      BY <2>1, <2>2, <2>3, WorkerAmounted
  <1>3. ASSUME NEW i \in Imports, SetSubLedgerOpenings(i) \/ MarkParsed(i) PROVE Amounted'
    <2>1. /\ UNCHANGED <<provider, today, happened, upload, created, batches, posted, treatment, entryVars, edits>>
          /\ stage[i] # "none" /\ stage' \in [Imports -> Stages]
          /\ \A j \in Imports : stage'[j] # "none" => stage[j] # "none"
      BY <1>0, <1>3 DEF SetSubLedgerOpenings, MarkParsed, Stages
    <2>2. upload[i].selected \in SUBSET Books /\ {None} \in SUBSET Books
      <3>1. upload[i] \in Upload
        BY <2>1 DEF IInv, Shape
      <3> QED
        BY <3>1 DEF Upload, Books
    <2>3. \/ anchors' \subseteq anchors \cup Openings(i, upload[i].selected)
          \/ anchors' \subseteq anchors \cup Openings(i, {None})
      BY <1>3 DEF SetSubLedgerOpenings, MarkParsed
    <2> QED
      BY <1>0, <2>1, <2>2, <2>3, WorkerAmounted
  <1>4. CASE UNCHANGED vars
    <2>1. /\ UNCHANGED <<provider, today, happened, treatment, edits>> /\ UNCHANGED importVars
          /\ UNCHANGED entryVars
      BY <1>4 DEF vars
    <2>2. TypeOK' /\ Booked' /\ Entered'
      BY <2>1 DEF Amounted, TypeOK, Booked, Entered, importVars, entryVars, Movement, Of
    <2> QED
      BY <2>1, <2>2, SameImports DEF Amounted
  <1>5. ASSUME NEW i \in Imports, NEW from \in Days, NEW to \in Days,
               NEW selected \in SUBSET SubLedgers, UploadStatement(i, from, to, selected)
        PROVE  Amounted'
    BY <1>5, UploadAmounted
  <1>6. CASE BankBooks \/ NextDay
    BY <1>6, BankAmounted
  <1>7. ASSUME NEW e \in Entries, NEW day \in Days, NEW delta \in Amounts, NEW sub \in Books,
               CheckEntry(e, day, delta, sub)
        PROVE  Amounted'
    BY <1>7, EntryAmounted
  <1>8. ASSUME NEW e \in Entries, InsertEntry(e) PROVE Amounted'
    BY <1>8, EntryAmounted
  <1>9. ASSUME NEW l \in SubLedgers, NEW t \in Treatment, CreateSubLedger(l, t) \/ UpdateSubLedger(l, t)
        PROVE  Amounted'
    BY <1>9, SubLedgerAmounted
  <1>10. ASSUME NEW l \in SubLedgers, DeleteSubLedger(l) PROVE Amounted'
    BY <1>10, SubLedgerAmounted
  <1> QED
    BY <1>1, <1>2, <1>3, <1>4, <1>5, <1>6, <1>7, <1>8, <1>9, <1>10 DEF Next

LEMMA AmountsHold == Spec => [](IInv /\ Amounted)
  <1>1. Init => IInv /\ Amounted
    BY InitHolds, InitAmounted
  <1>2. (IInv /\ Amounted) /\ [Next]_vars => (IInv /\ Amounted)'
    BY Inductive, AmountedNext
  <1> QED
    BY <1>1, <1>2, PTL DEF Spec

(* Type correctness: the worker's stages and books, the rows, the openings *)
(* and the entries are of their kinds.                                     *)
THEOREM TypeCorrect == Spec => []TypeOK
  <1>1. IInv /\ Amounted => TypeOK
    BY DEF Amounted
  <1> QED
    BY AmountsHold, <1>1, PTL

-----------------------------------------------------------------------------
(* Anchored books. *)

LEMMA RowFacts ==
    ASSUME IInv, Amounted, NEW a \in anchors
    PROVE  /\ a \in Anchor /\ a.imp \in Imports /\ stage[a.imp] # "none" /\ upload[a.imp] \in Upload
           /\ FirstRow(a.imp, a.book) \in BookRows(a.imp, a.book)
           /\ \A j \in BookRows(a.imp, a.book) :
                 Of(j).seq = Of(FirstRow(a.imp, a.book)).seq => FirstRow(a.imp, a.book) <= j
           /\ a.day = Of(FirstRow(a.imp, a.book)).day
           /\ a.opening = BalanceAfter(FirstRow(a.imp, a.book)) - Of(FirstRow(a.imp, a.book)).delta
  <1>1. provider \in Providers /\ a \in Anchor /\ a.imp \in Imports
    BY DEF Amounted, TypeOK, Anchor
  <1>2. stage[a.imp] # "none" /\ upload[a.imp] \in Upload
    BY <1>1 DEF IInv, AnchorsOf, Shape
  <1>3. a = Derived(a.imp, a.book) /\ BookRows(a.imp, a.book) # {}
    BY DEF Amounted, Derivations
  <1>4. /\ a.day = Of(FirstRow(a.imp, a.book)).day
        /\ a.opening = BalanceAfter(FirstRow(a.imp, a.book)) - Of(FirstRow(a.imp, a.book)).delta
    BY <1>3 DEF Derived
  <1> QED
    BY <1>1, <1>2, <1>3, <1>4, FirstIs

(* The movements of a sequence on the days ds. *)
MovesOn(s, ds) == {k \in Movement : Of(k).seq = s /\ Of(k).day \in ds}

(* An anchor of a book filed from one sequence is what the bank held       *)
(* before the anchor's day.                                                *)
LEMMA AnchorIsBank ==
    ASSUME IInv, Amounted, NEW o \in anchors, NEW s, SequencesOf(o.book) = {s}
    PROVE  o.opening = Start[s] + SumFunctionOnSet(Delta, MovesOn(s, 1..(o.day - 1)))
  <1> DEFINE f == FirstRow(o.imp, o.book)
             u == upload[o.imp]
  <1>1. provider \in Providers
    BY DEF Amounted, TypeOK
  <1>2. /\ f \in BookRows(o.imp, o.book) /\ o.day = Of(f).day
        /\ o.opening = BalanceAfter(f) - Of(f).delta /\ u \in Upload
        /\ \A j \in BookRows(o.imp, o.book) : Of(j).seq = Of(f).seq => f <= j
    BY RowFacts
  <1> HIDE DEF f, u
  <1>3. /\ f \in Movement /\ f <= u.cut /\ Of(f).day \in u.from..u.to /\ Tag(f) = o.book
        /\ u.from \in Int /\ u.to \in Int /\ u.cut \in Int
    BY <1>2 DEF BookRows, Rows, u, Upload, Days
  <1>4. Of(f).seq = s
    BY <1>1, <1>3, MovementFacts
  <1>5. \A k \in Movement : k \in Int /\ Of(k).day \in Int /\ Of(k).day >= 1
    BY <1>1, MovementFacts DEF Days
  <1>6. ASSUME NEW j \in Before(f) PROVE j \in MovesOn(s, 1..(o.day - 1))
    <2>1. j \in Movement /\ j < f /\ Of(j).seq = s
      BY <1>4, <1>6 DEF Before
    <2>2. j \in 1..f /\ Of(j).day <= Of(f).day
      <3>1. j \in 1..f
        BY <1>3, <1>5, <2>1 DEF Movement
      <3> QED
        BY <1>1, <1>3, <3>1, MovementFacts
    <2>3. Of(j).day < u.from
      <3>1. SUFFICES ASSUME Of(j).day >= u.from PROVE FALSE
        BY <1>3, <1>5, <2>1
      <3>2. j <= u.cut /\ Of(j).day \in u.from..u.to
        BY <1>3, <1>5, <2>1, <2>2, <3>1
      <3>3. Tag(j) = o.book
        BY <1>3, <1>4, <2>1 DEF Tag
      <3>4. j \in BookRows(o.imp, o.book)
        BY <2>1, <3>2, <3>3 DEF BookRows, Rows, u
      <3>5. f <= j
        BY <1>2, <1>4, <2>1, <3>4
      <3> QED
        BY <1>3, <1>5, <2>1, <3>5
    <2>4. Of(j).day \in 1..(o.day - 1)
      BY <1>2, <1>3, <1>5, <2>1, <2>3
    <2> QED
      BY <2>1, <2>4 DEF MovesOn
  <1>7. ASSUME NEW j \in MovesOn(s, 1..(o.day - 1)) PROVE j \in Before(f)
    <2>1. j \in Movement /\ Of(j).seq = s /\ Of(j).day < Of(f).day
      BY <1>2, <1>3, <1>5, <1>7 DEF MovesOn
    <2>2. j < f
      <3>1. SUFFICES ASSUME f <= j PROVE FALSE
        BY <1>3, <1>5, <2>1
      <3>2. f \in 1..j
        BY <1>3, <1>5, <2>1, <3>1 DEF Movement
      <3>3. Of(f).day <= Of(j).day
        BY <1>1, <2>1, <3>2, MovementFacts
      <3> QED
        BY <1>3, <1>5, <2>1, <3>3
    <2> QED
      BY <1>4, <2>1, <2>2 DEF Before
  <1>8. Before(f) = MovesOn(s, 1..(o.day - 1))
    BY <1>6, <1>7
  <1> QED
    BY <1>1, <1>2, <1>3, <1>4, <1>8, BalanceBefore

(* What an anchored statement covers is posted.                            *)
LEMMA CoveredIsPosted ==
    ASSUME IInv, Amounted, NEW a \in anchors, NEW d \in Days, Covers(a.imp, a.book, d),
           NEW k \in Movement, Tag(k) = a.book, Of(k).day \in a.day..d
    PROVE  k \in posted
  <1> DEFINE f == FirstRow(a.imp, a.book)
             u == upload[a.imp]
  <1>1. /\ f \in BookRows(a.imp, a.book) /\ a.day = Of(f).day /\ u \in Upload
        /\ a.imp \in Imports /\ stage[a.imp] # "none"
    BY RowFacts
  <1> HIDE DEF f, u
  <1>2. u.from <= a.day /\ d <= u.to /\ u.from \in Int /\ u.to \in Int /\ d \in Int
    BY <1>1 DEF BookRows, Rows, u, Upload, Days, Covers
  <1>3. Of(k).day \in Int /\ a.day \in Int
    <2>1. provider \in Providers /\ f \in Movement
      BY <1>1 DEF Amounted, TypeOK, BookRows, Rows
    <2> QED
      BY <1>1, <2>1, MovementFacts DEF Days
  <1>4. Of(k).day \in u.from..u.to
    BY <1>2, <1>3
  <1>5. k <= u.cut
    <2>1. CASE Of(k).day = d
      BY <2>1 DEF Covers, u
    <2>2. CASE Of(k).day # d
      <3>1. Of(k).day < u.to
        BY <1>2, <1>3, <2>2
      <3> QED
        BY <1>1, <3>1 DEF Amounted, Uploaded, u
    <2> QED
      BY <2>1, <2>2
  <1>6. k \in BookRows(a.imp, a.book)
    BY <1>4, <1>5 DEF BookRows, Rows, u
  <1>7. AnchorsFollowRows
    BY DEF IInv, Filed, AnchorsOf, AnchorsFollowRows
  <1> QED
    BY <1>6, <1>7 DEF AnchorsFollowRows

LEMMA NetTypes ==
    ASSUME Amounted, NEW b, NEW ds
    PROVE  NetRows(b, ds) \in Int /\ NetEntries(b, ds) \in Int
  <1>1. NetRows(b, ds) \in Int
    <2> DEFINE S == {j \in posted : Tag(j) = b /\ Of(j).day \in ds}
    <2>1. S \in SUBSET Movement /\ provider \in Providers
      BY DEF Amounted, TypeOK
    <2>2. NetRows(b, ds) = SumFunction([k \in S |-> Of(k).delta])
      BY DEF NetRows
    <2> HIDE DEF S
    <2> QED
      BY <2>1, <2>2, DeltaSums
  <1>2. NetEntries(b, ds) \in Int
    <2> DEFINE S == {e \in Entries : entryStage[e] = "made" /\ entry[e].sub = b /\ entry[e].day \in ds}
               g == [e \in S |-> entry[e].delta]
    <2>1. S \in SUBSET Entries /\ \A e \in S : entry[e].delta \in Int
      BY DEF Amounted, Entered, Entry
    <2>2. NetEntries(b, ds) = SumFunction(g)
      BY DEF NetEntries
    <2> HIDE DEF S
    <2>3. DOMAIN g = S /\ \A e \in S : g[e] \in Int
      BY <2>1
    <2>4. IsFiniteSet(S)
      BY <2>1, FiniteTables, FS_Subset
    <2> HIDE DEF g
    <2>5. SumFunction(g) = SumFunctionOnSet(g, S)
      BY <2>3 DEF SumFunction
    <2> QED
      BY <2>2, <2>3, <2>4, <2>5, SumType
  <1> QED
    BY <1>1, <1>2

(* The anchor of a day: there is one when any applies, of the latest day.  *)
LEMMA LatestIs ==
    ASSUME TypeOK, NEW b, NEW d, NEW A \in SUBSET Applicable(b, d), A # {}
    PROVE  /\ Latest(A) # {} /\ Latest(A) \subseteq A
           /\ Newest(A) # {} /\ Newest(A) \subseteq A
           /\ \A o, p \in Latest(A) : o.day = p.day
  <1>1. A \in SUBSET anchors /\ \A a \in A : a.day \in Days /\ a.imp \in Imports
    BY DEF Applicable, TypeOK, Anchor
  <1>2. Latest(A) # {} /\ \A o, p \in Latest(A) : o.day = p.day
    <2> DEFINE D == {a.day : a \in A}
    <2>1. D \in SUBSET Days /\ D # {} /\ Days \subseteq Int /\ IsFiniteSet(Days)
      BY <1>1, ConstantsAssumption, FS_Interval DEF Days
    <2> HIDE DEF D
    <2>2. PICK m \in D : \A x \in D : x <= m
      BY <2>1, Extremes, FS_Subset
    <2> USE DEF D
    <2>3. PICK a \in A : a.day = m
      BY <2>2
    <2>4. a \in Latest(A)
      BY <2>2, <2>3 DEF Latest
    <2>5. \A o \in Latest(A) : o.day \in Int /\ \A p \in Latest(A) : p.day <= o.day
      BY <1>1, <2>1 DEF Latest
    <2> QED
      BY <2>4, <2>5
  <1>3. Newest(A) # {}
    <2> DEFINE C == {created[a.imp] : a \in A}
               R == {created[i] : i \in Imports}
    <2>1. C \in SUBSET R /\ C # {} /\ R \subseteq Int
      BY <1>1 DEF TypeOK
    <2>2. IsFiniteSet(R)
      <3>1. created \in Surjection(Imports, R)
        BY DEF TypeOK, Surjection
      <3> HIDE DEF R
      <3> QED
        BY <3>1, FiniteTables, FS_Surjection
    <2>3. PICK m \in C : \A x \in C : x <= m
      <3> HIDE DEF C, R
      <3> QED
        BY <2>1, <2>2, Extremes, FS_Subset
    <2>4. PICK a \in A : created[a.imp] = m
      BY <2>3
    <2>5. a \in Newest(A)
      BY <2>3, <2>4 DEF Newest
    <2> QED
      BY <2>5
  <1> QED
    BY <1>2, <1>3 DEF Latest, Newest

LEMMA AnchorsAtIs ==
    ASSUME TypeOK, NEW b, NEW d, Applicable(b, d) # {}
    PROVE  /\ AnchorsAt(b, d) # {} /\ AnchorsAt(b, d) \subseteq Latest(Applicable(b, d))
           /\ Latest(Applicable(b, d)) \subseteq Applicable(b, d)
           /\ \A o, p \in Latest(Applicable(b, d)) : o.day = p.day
  <1> DEFINE A == Applicable(b, d)
             L == Latest(A)
  <1>1. L # {} /\ L \subseteq A /\ \A o, p \in L : o.day = p.day
    BY LatestIs
  <1>2. L \in SUBSET A
    BY <1>1
  <1>3. Newest(L) # {} /\ Newest(L) \subseteq L
    <2> HIDE DEF L, A
    <2> QED
      BY <1>1, <1>2, LatestIs DEF A
  <1> QED
    BY <1>1, <1>3 DEF AnchorsAt

(* What the bank moved until a day is what it moved before one of its days *)
(* and what it moved from then on.                                         *)
LEMMA BankSplits ==
    ASSUME provider \in Providers, NEW s \in Sequence, NEW d \in Days, NEW from \in Days, from <= d
    PROVE  /\ BankBalance(s, d) = (Start[s] + SumFunctionOnSet(Delta, MovesOn(s, 1..(from - 1))))
                                      + SumFunctionOnSet(Delta, MovesOn(s, from..d))
           /\ BankBalance(s, d) \in Int /\ Start[s] \in Int
           /\ SumFunctionOnSet(Delta, MovesOn(s, 1..(from - 1))) \in Int
           /\ SumFunctionOnSet(Delta, MovesOn(s, from..d)) \in Int
  <1> DEFINE A == MovesOn(s, 1..(from - 1))
             B == MovesOn(s, from..d)
             upTo == {k \in Movement : Of(k).seq = s /\ Of(k).day <= d}
  <1>1. \A k \in Movement : Of(k).day \in Int /\ Of(k).day >= 1
    BY MovementFacts DEF Days
  <1>2. from \in Int /\ d \in Int
    BY DEF Days
  <1>3. A \in SUBSET Movement /\ B \in SUBSET Movement /\ upTo \in SUBSET Movement
    BY DEF MovesOn
  <1>4. A \cap B = {}
    BY <1>1, <1>2 DEF MovesOn
  <1>5. upTo = A \cup B
    BY <1>1, <1>2 DEF MovesOn
  <1>6. BankBalance(s, d) = Start[s] + SumFunction([k \in upTo |-> Of(k).delta])
    BY DEF BankBalance
  <1> HIDE DEF A, B, upTo
  <1>7. SumFunction([k \in upTo |-> Of(k).delta]) = SumFunctionOnSet(Delta, A \cup B)
    BY <1>3, <1>5, DeltaSums
  <1>8. SumFunctionOnSet(Delta, A \cup B) = SumFunctionOnSet(Delta, A) + SumFunctionOnSet(Delta, B)
    <2>1. IsFiniteSet(A) /\ IsFiniteSet(B) /\ \A k \in A \cup B : Delta[k] \in Int
      BY <1>3, DeltaSums
    <2> QED
      BY <1>4, <2>1, SumDisjointUnion
  <1>9. SumFunctionOnSet(Delta, A) \in Int /\ SumFunctionOnSet(Delta, B) \in Int
    BY <1>3, DeltaSums
  <1>10. Start[s] \in Int
    BY ConstantsAssumption
  <1>11. \A x, y, z \in Int : x + (y + z) = (x + y) + z /\ (x + y) + z \in Int
    OBVIOUS
  <1> QED
    BY <1>6, <1>7, <1>8, <1>9, <1>10, <1>11 DEF A, B

(* For a book filed from one sequence: an anchor of the latest day, and    *)
(* what is filed from that day on, make up the bank's balance.             *)
LEMMA ExactValue ==
    ASSUME IInv, Amounted, NEW a \in anchors, NEW s, SequencesOf(a.book) = {s},
           NEW d \in Days, a.day <= d, Covers(a.imp, a.book, d),
           NEW o \in Latest(Applicable(a.book, d))
    PROVE  o.opening + Net(a.book, Replay(o.day, d)) = BankBalance(s, d) + NetEntries(a.book, o.day..d)
  <1> DEFINE b == a.book
             ds == o.day..d
             S == {j \in posted : Tag(j) = b /\ Of(j).day \in ds}
  <1>1. TypeOK /\ provider \in Providers /\ a \in Applicable(b, d)
    BY DEF Amounted, TypeOK, Applicable
  <1>2. o \in anchors /\ o.book = b /\ o.day <= d /\ a.day <= o.day
    BY <1>1, LatestIs DEF Latest, Applicable
  <1>3. o.day \in Days /\ a.day \in Days /\ o.opening \in Int
    BY <1>1, <1>2 DEF TypeOK, Anchor
  <1>4. s \in Sequence
    BY DEF SequencesOf
  <1>5. S = MovesOn(s, ds)
    <2>1. ASSUME NEW k \in Movement PROVE Tag(k) = b <=> Of(k).seq = s
      BY <1>1, MovementFacts DEF SequencesOf, Tag
    <2>2. posted \subseteq Movement
      BY <1>1 DEF TypeOK
    <2>3. ASSUME NEW k \in Movement, Tag(k) = b, Of(k).day \in ds PROVE k \in posted
      <3>1. Of(k).day \in a.day..d
        BY <1>2, <1>3, <2>3 DEF Days
      <3> QED
        BY <2>3, <3>1, CoveredIsPosted
    <2> QED
      BY <2>1, <2>2, <2>3 DEF MovesOn
  <1>6. NetRows(b, ds) = SumFunctionOnSet(Delta, MovesOn(s, ds))
    <2>1. S \in SUBSET Movement
      BY <1>1 DEF TypeOK
    <2>2. NetRows(b, ds) = SumFunction([k \in S |-> Of(k).delta])
      BY DEF NetRows
    <2> HIDE DEF S
    <2> QED
      BY <1>1, <1>5, <2>1, <2>2, DeltaSums
  <1>7. o.opening = Start[s] + SumFunctionOnSet(Delta, MovesOn(s, 1..(o.day - 1)))
    BY <1>2, AnchorIsBank
  <1>8. o.opening + NetRows(b, ds) = BankBalance(s, d)
    BY <1>1, <1>2, <1>3, <1>4, <1>6, <1>7, BankSplits
  <1>9. NetRows(b, ds) \in Int /\ NetEntries(b, ds) \in Int
    BY NetTypes
  <1>10. \A x, y, z \in Int : x + (y + z) = (x + y) + z
    OBVIOUS
  <1>11. Net(b, Replay(o.day, d)) = NetRows(b, ds) + NetEntries(b, ds)
    BY DEF Net, Replay
  <1> HIDE DEF b, ds
  <1>12. o.opening + (NetRows(b, ds) + NetEntries(b, ds)) = (o.opening + NetRows(b, ds)) + NetEntries(b, ds)
    BY <1>3, <1>9, <1>10
  <1> QED
    BY <1>8, <1>11, <1>12 DEF b, ds

(* For each day an anchored statement covers, whatever was imported before *)
(* or after it and wherever an import stopped, a book filed from one       *)
(* sequence shows the bank's balance and the manual entries on top of it.  *)
THEOREM AnchoredBooksAreExact == Spec => []AnchoredIsExact
  <1>1. IInv /\ Amounted => AnchoredIsExact
    <2> SUFFICES ASSUME IInv, Amounted, NEW a \in anchors, Cardinality(SequencesOf(a.book)) = 1,
                        NEW d \in Days, a.day <= d, Covers(a.imp, a.book, d)
                 PROVE  BookValues(a.book, d) =
                          {SumFunction([s \in SequencesOf(a.book) |-> BankBalance(s, d)])
                             + NetEntries(a.book, o.day..d) : o \in Latest(Applicable(a.book, d))}
      BY DEF AnchoredIsExact, Exact
    <2> DEFINE b == a.book
               L == Latest(Applicable(b, d))
    <2>1. PICK s : SequencesOf(b) = {s}
      <3>1. SequencesOf(b) \in SUBSET Sequence
        BY DEF SequencesOf
      <3>2. IsFiniteSet(SequencesOf(b))
        BY <3>1, FiniteTables, FS_Subset
      <3> QED
        BY <3>2, FS_Singleton
    <2>2. TypeOK /\ provider \in Providers /\ a \in Applicable(b, d) /\ s \in Sequence
      BY <2>1 DEF Amounted, TypeOK, Applicable, SequencesOf
    <2>3. /\ AnchorsAt(b, d) # {} /\ AnchorsAt(b, d) \subseteq L /\ L \subseteq Applicable(b, d)
          /\ \A o, p \in L : o.day = p.day
      BY <2>2, AnchorsAtIs
    <2>4. SumFunction([t \in SequencesOf(b) |-> BankBalance(t, d)]) = BankBalance(s, d)
      <3> DEFINE g == [t \in {s} |-> BankBalance(t, d)]
      <3>1. BankBalance(s, d) \in Int
        <4>1. d <= d /\ d \in Days
          BY DEF Days
        <4> QED
          BY <2>2, <4>1, BankSplits
      <3>2. DOMAIN g = {s} /\ g[s] = BankBalance(s, d)
        OBVIOUS
      <3> HIDE DEF g
      <3>3. SumFunction(g) = SumFunctionOnSet(g, {s})
        BY <3>2 DEF SumFunction
      <3>4. SumFunctionOnSet(g, {s}) = g[s] + SumFunctionOnSet(g, {s} \ {s})
        <4>1. IsFiniteSet({s}) /\ s \in {s} /\ \A x \in {s} : g[x] \in Int
          BY <3>1, <3>2, FS_Singleton
        <4> QED
          BY <4>1, SumRemove
      <3>5. {s} \ {s} = {} /\ SumFunctionOnSet(g, {}) = 0
        BY SumEmpty
      <3>6. SumFunctionOnSet(g, {s}) = BankBalance(s, d)
        BY <3>1, <3>2, <3>4, <3>5
      <3> QED
        BY <2>1, <3>3, <3>6 DEF g
    <2>5. \A o \in L : o.opening + Net(b, Replay(o.day, d)) = BankBalance(s, d) + NetEntries(b, o.day..d)
      BY <2>1, ExactValue
    <2>6. BookValues(b, d) = {o.opening + Net(b, Replay(o.day, d)) : o \in AnchorsAt(b, d)}
      BY <2>3 DEF BookValues
    <2> HIDE DEF b, L
    <2>7. {o.opening + Net(b, Replay(o.day, d)) : o \in AnchorsAt(b, d)}
             = {BankBalance(s, d) + NetEntries(b, o.day..d) : o \in L}
      <3> DEFINE F(o) == o.opening + Net(b, Replay(o.day, d))
                 G(o) == BankBalance(s, d) + NetEntries(b, o.day..d)
      <3>1. \A o \in L : F(o) = G(o)
        BY <2>5
      <3>2. \A o, p \in L : G(o) = G(p)
        BY <2>3
      <3> HIDE DEF F, G
      <3>3. {F(o) : o \in AnchorsAt(b, d)} = {G(o) : o \in L}
        BY <2>3, <3>1, <3>2
      <3> QED
        BY <3>3 DEF F, G
    <2> QED
      BY <2>4, <2>6, <2>7 DEF b, L
  <1> QED
    BY AmountsHold, <1>1, PTL
-----------------------------------------------------------------------------
(* What a step may do to a balance. *)

(* Rows and anchors are never taken away, a statement's rank is fixed once *)
(* it has anchors, and entries change only with their stage.               *)
LEMMA StepKeeps ==
    ASSUME IInv, Amounted, [Next]_vars
    PROVE  /\ provider' = provider /\ posted \subseteq posted' /\ anchors \subseteq anchors'
           /\ \A a \in anchors' : created'[a.imp] = created[a.imp]
           /\ entryStage' = entryStage => entry' = entry
  <1>1. /\ created \in [Imports -> Nat] /\ stage \in [Imports -> Stages]
        /\ entryStage \in [Entries -> {"none", "checked", "made", "refused"}]
    BY DEF Amounted, TypeOK
  <1>2. ASSUME UNCHANGED <<provider, posted, anchors, created, entry>>
        PROVE  /\ provider' = provider /\ posted \subseteq posted' /\ anchors \subseteq anchors'
               /\ \A a \in anchors' : created'[a.imp] = created[a.imp]
               /\ entryStage' = entryStage => entry' = entry
    BY <1>2
  <1>3. ASSUME NEW i \in Imports, NEW from \in Days, NEW to \in Days,
               NEW selected \in SUBSET SubLedgers, UploadStatement(i, from, to, selected)
        PROVE  /\ UNCHANGED <<provider, posted, anchors, entry>>
               /\ \A a \in anchors' : created'[a.imp] = created[a.imp]
    <2>1. /\ UNCHANGED <<provider, posted, anchors, entry>> /\ stage[i] = "none"
          /\ created' = [created EXCEPT ![i] = Rank]
      BY <1>3 DEF UploadStatement, entryVars
    <2>2. \A a \in anchors : a.imp \in Imports /\ stage[a.imp] \in {"mark", "parsed"}
      BY DEF IInv, AnchorsOf
    <2> QED
      BY <1>1, <2>1, <2>2
  <1>4. ASSUME NEW i \in Imports,
               \/ ParseStatement(i) \/ SetSubLedgerOpenings(i) \/ MarkParsed(i)
               \/ \E b \in Books : InsertTransactions(i, b)
        PROVE  /\ UNCHANGED <<provider, created, entry>>
               /\ posted \subseteq posted' /\ anchors \subseteq anchors'
    BY <1>4 DEF ParseStatement, SetSubLedgerOpenings, MarkParsed, InsertTransactions, entryVars
  <1>5. ASSUME NEW e \in Entries,
               \/ \E day \in Days, delta \in Amounts, sub \in Books : CheckEntry(e, day, delta, sub)
               \/ InsertEntry(e)
        PROVE  /\ UNCHANGED <<provider, created, posted, anchors>>
               /\ entryStage' = entryStage => entry' = entry
    <2>1. CASE InsertEntry(e)
      BY <2>1 DEF InsertEntry, importVars
    <2>2. ASSUME NEW day \in Days, NEW delta \in Amounts, NEW sub \in Books, CheckEntry(e, day, delta, sub)
          PROVE  UNCHANGED <<provider, created, posted, anchors>> /\ entryStage' # entryStage
      BY <1>1, <2>2 DEF CheckEntry, importVars
    <2> QED
      BY <1>5, <2>1, <2>2
  <1>6. ASSUME NEW l \in SubLedgers,
               DeleteSubLedger(l) \/ \E t \in Treatment : CreateSubLedger(l, t) \/ UpdateSubLedger(l, t)
        PROVE  UNCHANGED <<provider, posted, anchors, created, entry>>
    BY <1>6 DEF DeleteSubLedger, CreateSubLedger, UpdateSubLedger, importVars, entryVars
  <1>7. CASE BankBooks \/ NextDay \/ UNCHANGED vars
    BY <1>2, <1>7 DEF BankBooks, NextDay, vars, importVars, entryVars
  <1> QED
    BY <1>2, <1>3, <1>4, <1>5, <1>6, <1>7 DEF Next

(* A balance depends on the latest anchors and on what is filed from their *)
(* day on.                                                                 *)
LEMMA BackfillStep ==
    ASSUME IInv, Amounted, Amounted', [Next]_vars, NEW b \in Books, NEW d \in Days,
           Applicable(b, d) # {}, entryStage' = entryStage, BringsNothing(b, d)
    PROVE  BookValues(b, d)' = BookValues(b, d)
  <1> DEFINE A == Applicable(b, d)
             L == Latest(A)
  <1>1. /\ provider' = provider /\ posted \subseteq posted' /\ anchors \subseteq anchors'
        /\ \A a \in anchors' : created'[a.imp] = created[a.imp]
        /\ entry' = entry
    BY StepKeeps
  <1>2. /\ TypeOK /\ TypeOK' /\ provider \in Providers /\ d \in Int
        /\ \A a \in anchors' : a.day \in Int
    BY DEF Amounted, TypeOK, Anchor, Days
  <1>3. /\ AnchorsAt(b, d) # {} /\ AnchorsAt(b, d) \subseteq L
        /\ L # {} /\ L \subseteq A /\ \A o, p \in L : o.day = p.day
    BY <1>2, AnchorsAtIs, LatestIs
  <1>4. PICK m : \A o \in L : o.day = m
    BY <1>3
  <1>5. m \in Int /\ m <= d /\ (\A a \in A : a.day <= m) /\ L = {a \in A : a.day = m}
    <2>1. PICK o \in L : TRUE
      BY <1>3
    <2>2. o \in anchors' /\ o.day = m /\ o.day <= d /\ \A a \in A : a.day <= o.day
      BY <1>1, <1>4, <2>1 DEF Latest, Applicable
    <2>3. A \subseteq anchors'
      BY <1>1 DEF Applicable
    <2> QED
      BY <1>2, <1>3, <1>4, <2>2, <2>3 DEF Latest
  <1>6. /\ \A k \in posted' \ posted : Tag(k) = b => Of(k).day \notin m..d
        /\ \A a \in anchors' \ anchors : a.book = b => a.day \notin m..d
    <2>1. PICK o \in L : o.day = m
      BY <1>3, <1>4
    <2> QED
      BY <2>1 DEF BringsNothing
  <1>7. A \subseteq A' /\ \A a \in A' \ A : a.day < m
    <2>1. A \subseteq A'
      BY <1>1 DEF Applicable
    <2>2. ASSUME NEW a \in A', a \notin A PROVE a.day < m
      <3>1. a \in anchors' /\ a \notin anchors /\ a.book = b /\ a.day <= d
        BY <2>2 DEF Applicable
      <3> QED
        BY <1>2, <1>5, <1>6, <3>1
    <2> QED
      BY <2>1, <2>2
  <1>8. L' = L
    <2>1. \A a \in A' : a.day \in Int
      BY <1>2 DEF Applicable
    <2>2. PICK o \in L : o.day = m /\ o \in A
      BY <1>3, <1>4
    <2>3. L' = {a \in A' : \A p \in A' : p.day <= a.day}
      BY DEF Latest
    <2>4. PICK B : B = A'
      OBVIOUS
    <2> HIDE DEF A, L
    <2> QED
      BY <1>5, <1>7, <2>1, <2>2, <2>3, <2>4
  <1>9. AnchorsAt(b, d)' = AnchorsAt(b, d)
    <2>1. \A a \in L : created'[a.imp] = created[a.imp]
      BY <1>1, <1>3 DEF Applicable
    <2>2. Newest(L)' = Newest(L)
      <3> HIDE DEF L
      <3> QED
        BY <1>8, <2>1 DEF Newest
    <2> QED
      BY <1>8, <2>2 DEF AnchorsAt
  <1>10. Net(b, Replay(m, d))' = Net(b, Replay(m, d))
    <2>1. /\ \A k : Of(k)' = Of(k) /\ Tag(k)' = Tag(k)
      BY <1>1 DEF Of, Tag
    <2>2. {j \in posted : Tag(j) = b /\ Of(j).day \in Replay(m, d)}'
             = {j \in posted : Tag(j) = b /\ Of(j).day \in Replay(m, d)}
      BY <1>1, <1>6, <2>1 DEF Replay
    <2>3. NetRows(b, Replay(m, d))' = NetRows(b, Replay(m, d))
      BY <2>1, <2>2 DEF NetRows
    <2>4. NetEntries(b, Replay(m, d))' = NetEntries(b, Replay(m, d))
      BY <1>1 DEF NetEntries
    <2> QED
      BY <2>3, <2>4 DEF Net
  <1>11. \A a \in AnchorsAt(b, d) : a.day = m
    BY <1>3, <1>4
  <1>12. BookValues(b, d) = {a.opening + Net(b, Replay(m, d)) : a \in AnchorsAt(b, d)}
    BY <1>3, <1>11 DEF BookValues
  <1>13. BookValues(b, d)' = {a.opening + Net(b, Replay(m, d))' : a \in AnchorsAt(b, d)'}
    BY <1>3, <1>9, <1>11 DEF BookValues
  <1> QED
    BY <1>9, <1>10, <1>12, <1>13

(* A step that brings a book nothing from its latest anchor's day on, an   *)
(* older statement say, leaves its balance as it is.                       *)
THEOREM OlderStatementsAreSuperseded == Spec => BackfillKeepsBalance
  <1>1. (IInv /\ Amounted) /\ (IInv /\ Amounted)' /\ [Next]_vars
            => [\A b \in Books, d \in Days :
                   /\ Applicable(b, d) # {} /\ entryStage' = entryStage
                   /\ BringsNothing(b, d)
                   => BookValues(b, d)' = BookValues(b, d)]_vars
    BY BackfillStep
  <1> QED
    BY AmountsHold, <1>1, PTL DEF Spec, BackfillKeepsBalance

-----------------------------------------------------------------------------
(* What an entry does to the balances. *)

Sign(t, l, v) == IF t[l] = "addition" THEN v ELSE -v

(* The sums of sub-ledgers that have one of several balances each. *)
Picks(N, B)     == {v \in [N -> UNION {B[l] : l \in N}] : \A l \in N : v[l] \in B[l]}
Total(t, N, v)  == SumFunction([l \in N |-> Sign(t, l, v[l])])
Totals(t, N, B) == {Total(t, N, v) : v \in Picks(N, B)}
Shift(V, x)     == {v + x : v \in V}

(* When one sub-ledger's balance moves by x, so does the sum, signed. *)
LEMMA OneMoves ==
    ASSUME NEW t, NEW N, IsFiniteSet(N), NEW s \in N, NEW x \in Int,
           NEW v, NEW w, \A l \in N : v[l] \in Int /\ w[l] \in Int,
           \A l \in N \ {s} : v[l] = w[l], v[s] = w[s] + x
    PROVE  /\ Total(t, N, v) = Total(t, N, w) + Sign(t, s, x)
           /\ Total(t, N, w) \in Int
  <1> DEFINE f == [l \in N |-> Sign(t, l, v[l])]
             g == [l \in N |-> Sign(t, l, w[l])]
  <1>1. \A l \in N : f[l] \in Int /\ g[l] \in Int
    BY DEF Sign
  <1>2. \A l \in N \ {s} : f[l] = g[l]
    OBVIOUS
  <1>3. f[s] = g[s] + Sign(t, s, x)
    <2>1. f[s] = Sign(t, s, v[s]) /\ g[s] = Sign(t, s, w[s])
      OBVIOUS
    <2>2. \A a, c \in Int : -(a + c) = (-a) + (-c)
      OBVIOUS
    <2> HIDE DEF f, g
    <2> QED
      BY <2>1, <2>2 DEF Sign
  <1>4. SumFunction(f) = SumFunctionOnSet(f, N) /\ SumFunction(g) = SumFunctionOnSet(g, N)
    <2>1. DOMAIN f = N /\ DOMAIN g = N
      OBVIOUS
    <2> HIDE DEF f, g
    <2> QED
      BY <2>1 DEF SumFunction
  <1> HIDE DEF f, g
  <1>5. IsFiniteSet(N \ {s})
    BY FS_Difference
  <1>6. SumFunctionOnSet(f, N) = f[s] + SumFunctionOnSet(f, N \ {s})
    BY <1>1, SumRemove
  <1>7. SumFunctionOnSet(g, N) = g[s] + SumFunctionOnSet(g, N \ {s})
    BY <1>1, SumRemove
  <1>8. SumFunctionOnSet(f, N \ {s}) = SumFunctionOnSet(g, N \ {s})
    BY <1>1, <1>2, <1>5, SumEqual
  <1>9. SumFunctionOnSet(g, N \ {s}) \in Int /\ SumFunctionOnSet(g, N) \in Int
    BY <1>1, <1>5, SumType
  <1>10. Sign(t, s, x) \in Int
    BY DEF Sign
  <1>11. \A a, c, e \in Int : (a + c) + e = (a + e) + c
    OBVIOUS
  <1>12. SumFunctionOnSet(f, N) = SumFunctionOnSet(g, N) + Sign(t, s, x)
    BY <1>1, <1>3, <1>6, <1>7, <1>8, <1>9, <1>10, <1>11
  <1> QED
    BY <1>4, <1>9, <1>12 DEF f, g, Total

LEMMA TotalsMove ==
    ASSUME NEW t, NEW N, IsFiniteSet(N), NEW s \in N, NEW x \in Int, NEW B, NEW C,
           \A l \in N : B[l] \subseteq Int, \A l \in N \ {s} : C[l] = B[l],
           C[s] = Shift(B[s], x)
    PROVE  Totals(t, N, C) = Shift(Totals(t, N, B), Sign(t, s, x))
  <1> USE DEF Shift
  <1>1. \A l \in N : C[l] \subseteq Int
    OBVIOUS
  <1>2. \A v \in Picks(N, B) : \A l \in N : v[l] \in B[l] /\ v[l] \in Int
    BY DEF Picks
  <1>3. \A v \in Picks(N, C) : \A l \in N : v[l] \in C[l] /\ v[l] \in Int
    BY <1>1 DEF Picks
  <1>4. ASSUME NEW v \in Picks(N, C)
        PROVE  Total(t, N, v) \in Shift(Totals(t, N, B), Sign(t, s, x))
    <2>1. PICK u \in B[s] : v[s] = u + x
      BY <1>3
    <2> DEFINE w == [l \in N |-> IF l = s THEN u ELSE v[l]]
    <2>2. \A l \in N : w[l] \in B[l]
      BY <1>3, <2>1
    <2>3. w \in Picks(N, B)
      BY <2>2 DEF Picks
    <2>4. w[s] = u /\ \A l \in N \ {s} : v[l] = w[l]
      OBVIOUS
    <2> HIDE DEF w
    <2>5. Total(t, N, v) = Total(t, N, w) + Sign(t, s, x)
      BY <1>2, <1>3, <2>1, <2>3, <2>4, OneMoves
    <2> QED
      BY <2>3, <2>5 DEF Totals
  <1>5. ASSUME NEW w \in Picks(N, B)
        PROVE  Total(t, N, w) + Sign(t, s, x) \in Totals(t, N, C)
    <2> DEFINE v == [l \in N |-> IF l = s THEN w[s] + x ELSE w[l]]
    <2>1. \A l \in N : v[l] \in C[l]
      BY <1>2
    <2>2. v \in Picks(N, C)
      BY <2>1 DEF Picks
    <2>3. v[s] = w[s] + x /\ \A l \in N \ {s} : v[l] = w[l]
      OBVIOUS
    <2> HIDE DEF v
    <2>4. Total(t, N, v) = Total(t, N, w) + Sign(t, s, x)
      BY <1>2, <1>3, <2>2, <2>3, OneMoves
    <2> QED
      BY <2>2, <2>4 DEF Totals
  <1>6. Totals(t, N, C) \subseteq Shift(Totals(t, N, B), Sign(t, s, x))
    <2> SUFFICES ASSUME NEW v \in Picks(N, C)
                 PROVE  Total(t, N, v) \in Shift(Totals(t, N, B), Sign(t, s, x))
      BY DEF Totals
    <2> QED
      BY <1>4
  <1>7. Shift(Totals(t, N, B), Sign(t, s, x)) \subseteq Totals(t, N, C)
    <2> SUFFICES ASSUME NEW u \in Totals(t, N, B) PROVE u + Sign(t, s, x) \in Totals(t, N, C)
      OBVIOUS
    <2>1. PICK w \in Picks(N, B) : u = Total(t, N, w)
      BY DEF Totals
    <2> QED
      BY <1>5, <2>1
  <1> QED
    BY <1>6, <1>7

(* The entry that is inserted is counted in its own book, from its day on. *)
LEMMA NetMoves ==
    ASSUME IInv, Amounted, NEW e \in Entries, InsertEntry(e), entryStage'[e] = "made",
           NEW b, NEW ds
    PROVE  /\ Net(b, ds) \in Int /\ entry[e] \in Entry
           /\ Net(b, ds)' = Net(b, ds) + (IF entry[e].sub = b /\ entry[e].day \in ds
                                            THEN entry[e].delta ELSE 0)
  <1> DEFINE S == {f \in Entries : entryStage[f] = "made" /\ entry[f].sub = b /\ entry[f].day \in ds}
             g == [f \in Entries |-> entry[f].delta]
             x == IF entry[e].sub = b /\ entry[e].day \in ds THEN entry[e].delta ELSE 0
  <1>1. /\ UNCHANGED <<provider, posted, entry>> /\ entryStage[e] = "checked"
        /\ entryStage \in [Entries -> {"none", "checked", "made", "refused"}]
        /\ \A f \in Entries \ {e} : entryStage'[f] = entryStage[f]
    BY DEF InsertEntry, importVars, Amounted, TypeOK
  <1>2. entry[e] \in Entry /\ entry[e].delta \in Int /\ \A f \in S : entry[f].delta \in Int
    BY <1>1 DEF Amounted, Entered, Entry
  <1>3. NetRows(b, ds)' = NetRows(b, ds)
    BY <1>1 DEF NetRows, Tag, Of
  <1>4. S' = IF entry[e].sub = b /\ entry[e].day \in ds THEN S \cup {e} ELSE S
    BY <1>1
  <1>5. S \in SUBSET Entries /\ S' \in SUBSET Entries /\ IsFiniteSet(S) /\ IsFiniteSet(S')
    <2>1. S \in SUBSET Entries /\ S' \in SUBSET Entries
      OBVIOUS
    <2> HIDE DEF S
    <2> QED
      BY <2>1, FiniteTables, FS_Subset
  <1>6. e \notin S
    BY <1>1
  <1>7. NetEntries(b, ds) = SumFunctionOnSet(g, S) /\ SumFunctionOnSet(g, S) \in Int
    <2>1. NetEntries(b, ds) = SumFunction([f \in S |-> entry[f].delta])
      BY DEF NetEntries
    <2>2. \A f \in S : g[f] \in Int /\ g[f] = entry[f].delta
      BY <1>2
    <2> HIDE DEF S, g
    <2>3. SumFunction([f \in S |-> entry[f].delta]) = SumFunctionOnSet(g, S)
      BY <1>5, <2>2, SumOfFunction
    <2> QED
      BY <1>5, <2>1, <2>2, <2>3, SumType
  <1>8. NetEntries(b, ds)' = SumFunctionOnSet(g, S')
    <2>1. NetEntries(b, ds)' = SumFunction([f \in S' |-> entry[f].delta])
      BY <1>1 DEF NetEntries
    <2>2. \A f \in S' : g[f] \in Int /\ g[f] = entry[f].delta
      BY <1>2, <1>4
    <2>3. PICK T : T = S'
      OBVIOUS
    <2> HIDE DEF S, g
    <2>4. SumFunction([f \in T |-> entry[f].delta]) = SumFunctionOnSet(g, T)
      BY <1>5, <2>2, <2>3, SumOfFunction
    <2> QED
      BY <2>1, <2>3, <2>4
  <1>9. SumFunctionOnSet(g, S') = SumFunctionOnSet(g, S) + x
    <2>1. g[e] = entry[e].delta /\ \A f \in S : g[f] \in Int
      BY <1>2
    <2>2. PICK T : T = S'
      OBVIOUS
    <2> HIDE DEF S, g
    <2>3. CASE entry[e].sub = b /\ entry[e].day \in ds
      <3>1. SumFunctionOnSet(g, S \cup {e}) = g[e] + SumFunctionOnSet(g, S)
        BY <1>2, <1>5, <1>6, <2>1, SumAdd
      <3> QED
        BY <1>2, <1>4, <1>7, <2>1, <2>3, <3>1
    <2>4. CASE ~(entry[e].sub = b /\ entry[e].day \in ds)
      BY <1>4, <1>7, <2>4
    <2> QED
      BY <2>3, <2>4
  <1> HIDE DEF S, g
  <1>10. NetEntries(b, ds)' = NetEntries(b, ds) + x
    BY <1>7, <1>8, <1>9
  <1>11. NetRows(b, ds) \in Int /\ NetEntries(b, ds) \in Int
    BY NetTypes
  <1>12. x \in Int
    BY <1>2
  <1> HIDE DEF x
  <1>13. \A p, q, y \in Int : p + (q + y) = (p + q) + y /\ p + q \in Int
    OBVIOUS
  <1>14. /\ Net(b, ds) = NetRows(b, ds) + NetEntries(b, ds)
         /\ Net(b, ds)' = NetRows(b, ds)' + NetEntries(b, ds)'
    BY DEF Net
  <1>15. Net(b, ds)' = Net(b, ds) + x /\ Net(b, ds) \in Int
    BY <1>3, <1>10, <1>11, <1>12, <1>13, <1>14
  <1> QED
    BY <1>2, <1>15 DEF x

(* An entry that is inserted moves the balances of its book alone, unless  *)
(* the book's latest anchor is of a later day.                             *)
LEMMA BookMoves ==
    ASSUME IInv, Amounted, NEW e \in Entries, InsertEntry(e), entryStage'[e] = "made",
           NEW b, NEW d \in Days, entry[e].day <= d
    PROVE  /\ BookValues(b, d) \subseteq Int
           /\ BookValues(b, d)' = Shift(BookValues(b, d), IF entry[e].sub = b /\ ~Supersedes(e, d)
                                                         THEN entry[e].delta ELSE 0)
  <1> DEFINE A == Applicable(b, d)
             x == IF entry[e].sub = b /\ ~Supersedes(e, d) THEN entry[e].delta ELSE 0
  <1>1. UNCHANGED <<anchors, created>> /\ TypeOK /\ d \in Int
    BY DEF InsertEntry, importVars, Amounted, Days
  <1>2. /\ entry[e] \in Entry /\ entry[e].day \in Int /\ entry[e].day >= 1 /\ entry[e].delta \in Int
        /\ \A ds : Net(b, ds) \in Int
    BY NetMoves DEF Entry, Days
  <1>3. AnchorsAt(b, d)' = AnchorsAt(b, d)
    BY <1>1 DEF AnchorsAt, Newest, Latest, Applicable
  <1>4. \A a \in A : a.day \in Int /\ a.opening \in Int /\ a.day <= d
    BY <1>1 DEF Applicable, TypeOK, Anchor, Days
  <1>5. CASE A = {}
    <2>1. AnchorsAt(b, d) = {}
      BY <1>5 DEF AnchorsAt, Newest, Latest
    <2>2. entry[e].sub = b => ~Supersedes(e, d)
      BY <1>5 DEF Supersedes
    <2>3. entry[e].day \in Replay(1, d)
      BY <1>1, <1>2 DEF Replay
    <2>4. Net(b, Replay(1, d))' = Net(b, Replay(1, d)) + x
      BY <2>2, <2>3, NetMoves
    <2>5. BookValues(b, d) = {Net(b, Replay(1, d))} /\ BookValues(b, d)' = {Net(b, Replay(1, d))'}
      BY <1>3, <2>1 DEF BookValues
    <2> HIDE DEF x
    <2>6. BookValues(b, d) \subseteq Int /\ BookValues(b, d)' = Shift(BookValues(b, d), x)
      BY <1>2, <2>4, <2>5 DEF Shift
    <2> QED
      BY <2>6 DEF x
  <1>6. CASE A # {}
    <2>1. /\ AnchorsAt(b, d) # {} /\ AnchorsAt(b, d) \subseteq Latest(A) /\ Latest(A) \subseteq A
          /\ \A o, p \in Latest(A) : o.day = p.day
      BY <1>1, <1>6, AnchorsAtIs
    <2>2. ASSUME NEW a \in AnchorsAt(b, d)
          PROVE  /\ a.opening \in Int /\ Net(b, Replay(a.day, d)) \in Int /\ x \in Int
                 /\ Net(b, Replay(a.day, d))' = Net(b, Replay(a.day, d)) + x
      <3>1. a \in A /\ \A o \in A : o.day <= a.day
        BY <2>1 DEF Latest
      <3>2. a.day \in Int /\ a.opening \in Int /\ a.day <= d /\ \A o \in A : o.day \in Int
        BY <1>4, <3>1
      <3>3. entry[e].sub = b => (Supersedes(e, d) <=> a.day > entry[e].day)
        BY <1>2, <3>1, <3>2 DEF Supersedes
      <3>4. entry[e].day \in Replay(a.day, d) <=> ~(a.day > entry[e].day)
        BY <1>1, <1>2, <3>2 DEF Replay
      <3>5. Net(b, Replay(a.day, d))' = Net(b, Replay(a.day, d))
                + (IF entry[e].sub = b /\ entry[e].day \in Replay(a.day, d) THEN entry[e].delta ELSE 0)
        BY NetMoves
      <3>6. x = IF entry[e].sub = b /\ entry[e].day \in Replay(a.day, d) THEN entry[e].delta ELSE 0
        BY <3>3, <3>4
      <3>7. x \in Int
        BY <1>2
      <3> HIDE DEF x
      <3> QED
        BY <1>2, <3>2, <3>5, <3>6, <3>7
    <2>3. /\ BookValues(b, d) = {a.opening + Net(b, Replay(a.day, d)) : a \in AnchorsAt(b, d)}
          /\ BookValues(b, d)' = {a.opening + Net(b, Replay(a.day, d))' : a \in AnchorsAt(b, d)}
      BY <1>3, <2>1 DEF BookValues
    <2> HIDE DEF x, A
    <2>4. \A p, q, y \in Int : p + (q + y) = (p + q) + y /\ p + q \in Int
      OBVIOUS
    <2>5. \A a \in AnchorsAt(b, d) :
              /\ a.opening + Net(b, Replay(a.day, d)) \in Int
              /\ a.opening + Net(b, Replay(a.day, d))' = (a.opening + Net(b, Replay(a.day, d))) + x
      <3> SUFFICES ASSUME NEW a \in AnchorsAt(b, d)
                   PROVE  /\ a.opening + Net(b, Replay(a.day, d)) \in Int
                          /\ a.opening + Net(b, Replay(a.day, d))'
                                = (a.opening + Net(b, Replay(a.day, d))) + x
        OBVIOUS
      <3> QED
        BY <2>2, <2>4
    <2>6. BookValues(b, d) \subseteq Int
      BY <2>3, <2>5
    <2>7. BookValues(b, d)' = Shift(BookValues(b, d), x)
      BY <2>3, <2>5 DEF Shift
    <2> QED
      BY <2>6, <2>7 DEF x
  <1> QED
    BY <1>5, <1>6

LEMMA EntryStep ==
    ASSUME IInv, Amounted, NEW e \in Entries, InsertEntry(e), entryStage'[e] = "made",
           ~(e \in bare /\ Live # {}), NEW d \in entry[e].day..LastDay
    PROVE  Balances(d)' = IF Supersedes(e, d) THEN Balances(d) ELSE Moved(e, d)
  <1> DEFINE s == entry[e].sub
             x == IF ~Supersedes(e, d) THEN entry[e].delta ELSE 0
  <1>1. /\ treatment' = treatment /\ entryStage[e] = "checked" /\ s \in Live \cup {None}
        /\ Live' = Live
    BY DEF InsertEntry, Live, Amounted, TypeOK
  <1>2. entry[e] \in Entry /\ entry[e].delta \in Int /\ entry[e].day \in Days /\ x \in Int
    BY NetMoves DEF Entry
  <1>3. d \in Days /\ entry[e].day <= d
    BY <1>2 DEF Days
  <1>4. \A b : /\ BookValues(b, d) \subseteq Int
               /\ BookValues(b, d)' = Shift(BookValues(b, d), IF s = b THEN x ELSE 0)
    BY <1>3, BookMoves
  <1>5. CASE Live = {}
    <2>1. s = None
      BY <1>1, <1>5
    <2>2. Balances(d) = BookValues(None, d) /\ Balances(d)' = BookValues(None, d)'
      BY <1>1, <1>5 DEF Balances
    <2>3. Balances(d) \subseteq Int /\ Balances(d)' = Shift(Balances(d), x)
      BY <1>4, <2>1, <2>2
    <2>4. CASE Supersedes(e, d)
      <3>1. Balances(d)' = Shift(Balances(d), 0)
        BY <2>3, <2>4
      <3>2. Shift(Balances(d), 0) = Balances(d)
        BY <2>3 DEF Shift
      <3> QED
        BY <2>4, <3>1, <3>2
    <2>5. CASE ~Supersedes(e, d)
      BY <2>1, <2>3, <2>5 DEF Moved, Shift
    <2> QED
      BY <2>4, <2>5
  <1>6. CASE Live # {}
    <2>1. s \in Live
      <3>1. s \in SubLedgers
        BY <1>1, <1>6 DEF Amounted, Entered
      <3> QED
        BY <1>1, <3>1, ConstantsAssumption
    <2>2. IsFiniteSet(Live)
      <3>1. Live \in SUBSET SubLedgers
        BY DEF Live
      <3> QED
        BY <3>1, FiniteTables, FS_Subset
    <2> DEFINE B == [l \in Live |-> BookValues(l, d)]
               C == [l \in Live |-> Shift(BookValues(l, d), IF s = l THEN x ELSE 0)]
    <2>3. Balances(d) = Totals(treatment, Live, B)
      BY <1>6 DEF Balances, Totals, Total, Picks, Sign, Signed
    <2>4. Balances(d)' = Totals(treatment, Live, C)
      <3>1. \A l : BookValues(l, d)' = Shift(BookValues(l, d), IF s = l THEN x ELSE 0)
        BY <1>4
      <3> HIDE DEF x, s
      <3>2. \A l \in Live : BookValues(l, d)' = C[l]
        BY <3>1
      <3> HIDE DEF C
      <3>3. UNION {BookValues(l, d)' : l \in Live} = UNION {C[l] : l \in Live}
        BY <3>2
      <3>4. {v \in [Live -> UNION {BookValues(l, d) : l \in Live}] :
                \A l \in Live : v[l] \in BookValues(l, d)}' = Picks(Live, C)
        BY <1>1, <3>2, <3>3 DEF Picks
      <3>5. \A l, u : Signed(l, u)' = Sign(treatment, l, u)
        BY <1>1 DEF Signed, Sign
      <3>6. \A v : SumFunction([l \in Live |-> Signed(l, v[l])])' = Total(treatment, Live, v)
        BY <1>1, <3>5 DEF Total
      <3>7. Balances(d)' = {Total(treatment, Live, v) : v \in Picks(Live, C)}
        BY <1>1, <1>6, <3>4, <3>6 DEF Balances
      <3> QED
        BY <3>7 DEF Totals
    <2>5. \A l \in Live : B[l] \subseteq Int
      BY <1>4
    <2>6. \A l \in Live \ {s} : C[l] = B[l]
      <3> SUFFICES ASSUME NEW l \in Live, l # s PROVE C[l] = B[l]
        OBVIOUS
      <3>1. C[l] = Shift(BookValues(l, d), 0)
        OBVIOUS
      <3>2. Shift(BookValues(l, d), 0) = BookValues(l, d)
        BY <1>4 DEF Shift
      <3> QED
        BY <3>1, <3>2
    <2>7. C[s] = Shift(B[s], x)
      BY <2>1
    <2> HIDE DEF B, C, x
    <2>8. Balances(d)' = Shift(Balances(d), Sign(treatment, s, x))
      <3> HIDE DEF s
      <3>1. Totals(treatment, Live, C) = Shift(Totals(treatment, Live, B), Sign(treatment, s, x))
        BY <1>2, <2>1, <2>2, <2>5, <2>6, <2>7, TotalsMove
      <3> QED
        BY <2>3, <2>4, <3>1
    <2>9. CASE Supersedes(e, d)
      <3>1. Sign(treatment, s, x) = 0
        <4>1. x = 0
          BY <2>9 DEF x
        <4>2. -x = 0
          <5>1. \A y \in Int : -y = 0 - y
            OBVIOUS
          <5>2. -x = 0 - x
            BY <1>2, <5>1
          <5> QED
            BY <4>1, <5>2
        <4> QED
          BY <4>1, <4>2 DEF Sign
      <3>2. Balances(d) \subseteq Int
        <4> SUFFICES ASSUME NEW v \in Picks(Live, B)
                     PROVE  Total(treatment, Live, v) \in Int
          BY <2>3 DEF Totals
        <4>1. \A l \in Live : v[l] \in Int
          BY <2>5 DEF Picks
        <4>2. v[s] = v[s] + 0
          BY <2>1, <4>1
        <4> QED
          BY <2>1, <2>2, <4>1, <4>2, OneMoves
      <3>3. Shift(Balances(d), 0) = Balances(d)
        BY <3>2 DEF Shift
      <3> QED
        BY <2>8, <2>9, <3>1, <3>3
    <2>10. CASE ~Supersedes(e, d)
      <3>1. s # None
        BY <2>1, ConstantsAssumption DEF Live
      <3>2. Sign(treatment, s, x) = Signed(s, entry[e].delta)
        BY <2>10 DEF Sign, Signed, x
      <3> QED
        BY <2>8, <2>10, <3>1, <3>2 DEF Moved, Shift
    <2> QED
      BY <2>9, <2>10
  <1> QED
    BY <1>5, <1>6

(* An entry is made only by its own insertion. *)
LEMMA MadeByInsertion ==
    ASSUME Amounted, [Next]_vars, NEW e \in Entries, entryStage[e] # "made", entryStage'[e] = "made"
    PROVE  InsertEntry(e)
  <1>1. entryStage \in [Entries -> {"none", "checked", "made", "refused"}]
    BY DEF Amounted, TypeOK
  <1>2. entryStage' # entryStage
    OBVIOUS
  <1>3. ASSUME NEW i \in Imports,
               \/ \E from, to \in Days, selected \in SUBSET SubLedgers : UploadStatement(i, from, to, selected)
               \/ ParseStatement(i) \/ SetSubLedgerOpenings(i) \/ MarkParsed(i)
               \/ \E b \in Books : InsertTransactions(i, b)
        PROVE  FALSE
    BY <1>2, <1>3 DEF UploadStatement, ParseStatement, SetSubLedgerOpenings, MarkParsed,
                      InsertTransactions, entryVars
  <1>4. ASSUME NEW l \in SubLedgers,
               DeleteSubLedger(l) \/ \E t \in Treatment : CreateSubLedger(l, t) \/ UpdateSubLedger(l, t)
        PROVE  FALSE
    BY <1>2, <1>4 DEF DeleteSubLedger, CreateSubLedger, UpdateSubLedger, entryVars
  <1>5. ASSUME NEW f \in Entries, NEW day \in Days, NEW delta \in Amounts, NEW sub \in Books,
               CheckEntry(f, day, delta, sub)
        PROVE  FALSE
    BY <1>1, <1>5 DEF CheckEntry
  <1>6. ASSUME NEW f \in Entries, InsertEntry(f)
        PROVE  InsertEntry(e)
    BY <1>1, <1>6 DEF InsertEntry
  <1>7. CASE BankBooks \/ NextDay \/ UNCHANGED vars
    BY <1>2, <1>7 DEF BankBooks, NextDay, vars, entryVars
  <1> QED
    BY <1>3, <1>4, <1>5, <1>6, <1>7 DEF Next

(* A manual entry moves the balance of its own day and of every later one  *)
(* by its amount, signed as its sub-ledger is, unless an anchor of a later *)
(* day has superseded it.                                                  *)
THEOREM EntriesCount == Spec => EntryCounts
  <1>1. (IInv /\ Amounted) /\ [Next]_vars
            => [\A e \in Entries : entryStage[e] # "made" /\ entryStage'[e] = "made" =>
                  \/ e \in bare /\ Live # {}
                  \/ \A d \in entry[e].day..LastDay :
                        Balances(d)' = IF Supersedes(e, d) THEN Balances(d) ELSE Moved(e, d)]_vars
    BY EntryStep, MadeByInsertion
  <1> QED
    BY AmountsHold, <1>1, PTL DEF Spec, EntryCounts
=============================================================================
