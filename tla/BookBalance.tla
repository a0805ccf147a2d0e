----------------------------- MODULE BookBalance -----------------------------
(***************************************************************************)
(* The book balance of one account (repositories/accounts.py) under what   *)
(* feeds it: statements of the bank's own ledger that the worker posts     *)
(* call by call, manual entries, and the account's sub-ledgers.            *)
(*                                                                         *)
(* The bank keeps a ledger of movements, in time order, in one or several  *)
(* sequences with a balance each.  A flat provider has one sequence.  A    *)
(* Mentor Sacco statement has a section per sequence; a section is filed   *)
(* under the sub-ledger that has its heading, and two sections may have    *)
(* the same heading.  The app sees a movement only through a statement,    *)
(* which covers whole days but for the day it is downloaded on, and its    *)
(* row is the same in every statement: true of all layouts but Equity      *)
(* Bank's (see Figures).  Amounts are whole and signed by their direction. *)
(***************************************************************************)
EXTENDS Integers, Sequences, FiniteSets, Functions

CONSTANTS Imports, Entries, SubLedgers, None, Providers, MentorSacco,
          LastDay,     \* bound: days 1..LastDay
          Ledger,      \* per provider: the bank's movements, oldest first
          Sections,    \* per provider: its sequences, in the statement's order
          Start,       \* the balance of each sequence before its first movement
          BookOf,      \* the sub-ledger a sequence is filed under, None when flat
          AtFirst,     \* treatments of the sub-ledgers the account may start with
          Amounts,     \* amounts of manual entries, negative when money goes out
          MaxEdits     \* bound: sub-ledgers created, changed or deleted

Days      == 1..LastDay
Sequence  == DOMAIN Start
Books     == SubLedgers \cup {None}
Treatment == {"addition", "deduction"}

ASSUME ConstantsAssumption ==
    /\ None \notin SubLedgers /\ None \notin Treatment
    /\ LastDay \in Nat \ {0} /\ MaxEdits \in Nat
    /\ Start \in [Sequence -> Int] /\ BookOf \in [Sequence -> Books]
    /\ Ledger \in [Providers -> Seq([seq : Sequence, day : Days, delta : Int])]
    /\ Sections \in [Providers -> Seq(Sequence)]
    /\ \A p \in Providers : \A k \in DOMAIN Ledger[p] :
          /\ \E n \in DOMAIN Sections[p] : Sections[p][n] = Ledger[p][k].seq
          /\ \A j \in 1..k : Ledger[p][j].day <= Ledger[p][k].day
    /\ AtFirst \subseteq [SubLedgers -> Treatment \cup {None}]
    /\ Amounts \subseteq Int

ASSUME FiniteTables ==
    IsFiniteSet(Imports) /\ IsFiniteSet(Entries) /\ IsFiniteSet(SubLedgers) /\ IsFiniteSet(Sequence)

VARIABLES
    provider,   \* the account's provider
    today,
    happened,   \* how many movements the bank has booked
    upload,     \* the statement of each import: days, what was booked, selection
    created,    \* statement_imports.created_at, as a rank; 0 is not created
    stage,      \* where the worker is with each import
    batches,    \* the books it has still to insert rows for
    posted,     \* the movements that are rows of transactions
    anchors,    \* the opening balances stored, per import and book
    treatment,  \* sub_ledgers.balance_treatment; None is no such sub-ledger
    entry,      \* the manual entry of each request
    entryStage,
    bare,       \* history: the entries checked on an account without sub-ledgers
    edits

importVars == <<upload, created, stage, batches, posted, anchors>>
entryVars  == <<entry, entryStage, bare>>
vars == <<provider, today, happened, importVars, treatment, entryVars, edits>>

Stages   == {"none", "queued", "insert", "open", "mark", "parsed", "stopped"}
Movement == 1..Len(Ledger[provider])
Upload   == [from : Days, to : Days, cut : Nat, selected : SUBSET SubLedgers]
Entry    == [day : Days, delta : Int, sub : Books]
Anchor   == [imp : Imports, book : Books, day : Days, opening : Int]

TypeOK ==
    /\ provider \in Providers /\ today \in Days /\ happened \in 0..Len(Ledger[provider])
    /\ upload \in [Imports -> Upload \cup {None}]
    /\ created \in [Imports -> Nat]
    /\ stage \in [Imports -> Stages]
    /\ batches \in [Imports -> SUBSET Books]
    /\ posted \subseteq Movement
    /\ anchors \subseteq Anchor
    /\ treatment \in [SubLedgers -> Treatment \cup {None}]
    /\ entry \in [Entries -> Entry \cup {None}]
    /\ entryStage \in [Entries -> {"none", "checked", "made", "refused"}]
    /\ bare \subseteq Entries
    /\ edits \in 0..MaxEdits

Init ==
    /\ provider \in Providers
    /\ today = 1 /\ happened = 0
    /\ upload = [i \in Imports |-> None]
    /\ created = [i \in Imports |-> 0]
    /\ stage = [i \in Imports |-> "none"]
    /\ batches = [i \in Imports |-> {}]
    /\ posted = {} /\ anchors = {}
    /\ treatment \in AtFirst
    /\ entry = [e \in Entries |-> None]
    /\ entryStage = [e \in Entries |-> "none"] /\ bare = {}
    /\ edits = 0

-----------------------------------------------------------------------------
(* What a statement says. *)

Live    == {l \in SubLedgers : treatment[l] # None}
Of(k)   == Ledger[provider][k]
Tag(k)  == BookOf[Of(k).seq]

Rows(i) == {k \in Movement : k <= upload[i].cut /\ Of(k).day \in upload[i].from..upload[i].to}

SectionRows(i, s) == {k \in Rows(i) : Of(k).seq = s}
BookRows(i, b)    == {k \in Rows(i) : Tag(k) = b}

Least(S) == CHOOSE k \in S : \A j \in S : k <= j

(* The rows of a book are those of its sections, one section after the     *)
(* other, each oldest first.                                               *)
FirstRow(i, b) ==
    LET filled == {n \in DOMAIN Sections[provider] :
                      LET s == Sections[provider][n]
                      IN  BookOf[s] = b /\ SectionRows(i, s) # {}}
    IN  Least(SectionRows(i, Sections[provider][Least(filled)]))

(* Each row states the balance of its own sequence after it. *)
BalanceAfter(k) ==
    LET s == Of(k).seq
        upTo == {j \in 1..k : Of(j).seq = s}
    IN  Start[s] + SumFunction([j \in upTo |-> Of(j).delta])

(* derive_opening_balance of the rows of a book that has some. *)
Derived(i, b) ==
    LET first == FirstRow(i, b)
    IN  [imp |-> i, book |-> b, day |-> Of(first).day,
         opening |-> BalanceAfter(first) - Of(first).delta]

(* A bug: one opening balance from the combined list of rows. *)
Wrong_OneOpening(i, bs) ==
    {a \in {Derived(i, b) : b \in {c \in bs : BookRows(i, c) # {}}} :
        \A b \in bs : BookRows(i, b) # {} => FirstRow(i, a.book) <= FirstRow(i, b)}

Openings(i, bs) == {Derived(i, b) : b \in {c \in bs : BookRows(i, c) # {}}}

(* The books an import writes to. *)
Target(i) == IF provider = MentorSacco THEN upload[i].selected ELSE {None}

-----------------------------------------------------------------------------
(* The book balance, a single query. *)

(* A bug: the anchor's own day is taken to be in its figure already. *)
Wrong_AfterTheAnchorDay(from, d) == (from + 1)..d

Replay(from, d) == from..d

(* The net of what is filed under b on the days ds. *)
NetRows(b, ds) ==
    SumFunction([k \in {j \in posted : Tag(j) = b /\ Of(j).day \in ds} |-> Of(k).delta])
NetEntries(b, ds) ==
    LET counted == {e \in Entries : entryStage[e] = "made" /\ entry[e].sub = b /\ entry[e].day \in ds}
    IN  SumFunction([e \in counted |-> entry[e].delta])
Net(b, ds) == NetRows(b, ds) + NetEntries(b, ds)

Newest(A) == {a \in A : \A o \in A : created[o.imp] <= created[a.imp]}
Latest(A) == {a \in A : \A o \in A : o.day <= a.day}

Applicable(b, d) == {a \in anchors : a.book = b /\ a.day <= d}

(* A bug: the statement imported last is the anchor. *)
Wrong_LastImported(b, d) == Newest(Applicable(b, d))

(* ORDER BY opening_balance_date DESC, and for a flat account created_at   *)
(* DESC: a tie of a sub-ledger's anchors may be resolved either way.       *)
AnchorsAt(b, d) ==
    IF b = None THEN Newest(Latest(Applicable(b, d))) ELSE Latest(Applicable(b, d))

BookValues(b, d) ==
    IF AnchorsAt(b, d) = {} THEN {Net(b, Replay(1, d))}
    ELSE {a.opening + Net(b, Replay(a.day, d)) : a \in AnchorsAt(b, d)}

Signed(l, v) == IF treatment[l] = "addition" THEN v ELSE -v

(* COALESCE(sub_ledger_balance.total, anchor + direct_net): with the first *)
(* sub-ledger, whatever is filed under none is left out.                   *)
Balances(d) ==
    IF Live = {} THEN BookValues(None, d)
    ELSE LET picks == {v \in [Live -> UNION {BookValues(l, d) : l \in Live}] :
                          \A l \in Live : v[l] \in BookValues(l, d)}
         IN  {SumFunction([l \in Live |-> Signed(l, v[l])]) : v \in picks}

-----------------------------------------------------------------------------
(* The bank, and the days. *)

BankBooks ==
    /\ happened < Len(Ledger[provider]) /\ Of(happened + 1).day = today
    /\ happened' = happened + 1
    /\ UNCHANGED <<provider, today, importVars, treatment, entryVars, edits>>

NextDay ==
    /\ today < LastDay
    /\ happened < Len(Ledger[provider]) => Of(happened + 1).day > today
    /\ today' = today + 1
    /\ UNCHANGED <<provider, happened, importVars, treatment, entryVars, edits>>

-----------------------------------------------------------------------------
(* Imports.  The upload is one step here; ImportPipeline has its steps.    *)
(* Nothing takes an import up again after a call has failed or the worker  *)
(* has died: what it leaves is what it leaves when its next step is never  *)
(* taken, and no property below asks for more than the rows and anchors.   *)

Rank == Cardinality({i \in Imports : created[i] # 0}) + 1

UploadStatement(i, from, to, selected) ==
    /\ stage[i] = "none" /\ from <= to /\ to <= today
    /\ IF Live = {} THEN selected = {} ELSE selected # {} /\ selected \subseteq Live
    /\ upload' = [upload EXCEPT ![i] = [from |-> from, to |-> to, cut |-> happened,
                                        selected |-> selected]]
    /\ created' = [created EXCEPT ![i] = Rank]
    /\ stage' = [stage EXCEPT ![i] = "queued"]
    /\ UNCHANGED <<provider, today, happened, batches, posted, anchors, treatment, entryVars, edits>>

(* A selected sub-ledger needs a section; no selection, no import. *)
Resolvable(i) ==
    /\ Target(i) # {}
    /\ \A b \in Target(i) : \E n \in DOMAIN Sections[provider] : BookOf[Sections[provider][n]] = b

ParseStatement(i) ==
    /\ stage[i] = "queued"
    /\ IF Resolvable(i)
       THEN /\ stage' = [stage EXCEPT ![i] = "insert"]
            /\ batches' = [batches EXCEPT ![i] = Target(i)]
       ELSE /\ stage' = [stage EXCEPT ![i] = "stopped"]
            /\ UNCHANGED batches
    /\ UNCHANGED <<provider, today, happened, upload, created, posted, anchors, treatment, entryVars, edits>>

(* A bug: the openings are written after the first batch. *)
Wrong_OpenAfterOneBatch(left) == IF provider = MentorSacco THEN "open" ELSE "mark"

StageAfter(left) ==
    IF left # {} THEN "insert" ELSE IF provider = MentorSacco THEN "open" ELSE "mark"

(* Rows that are there already are skipped. *)
InsertTransactions(i, b) ==
    /\ stage[i] = "insert" /\ b \in batches[i]
    /\ posted' = posted \cup BookRows(i, b)
    /\ batches' = [batches EXCEPT ![i] = @ \ {b}]
    /\ stage' = [stage EXCEPT ![i] = StageAfter(batches[i] \ {b})]
    /\ UNCHANGED <<provider, today, happened, upload, created, anchors, treatment, entryVars, edits>>

SetSubLedgerOpenings(i) ==
    /\ stage[i] = "open"
    /\ anchors' = anchors \cup Openings(i, upload[i].selected)
    /\ stage' = [stage EXCEPT ![i] = "mark"]
    /\ UNCHANGED <<provider, today, happened, upload, created, batches, posted, treatment, entryVars, edits>>

(* mark_import_parsed, with the opening balance of a flat account. *)
MarkParsed(i) ==
    /\ stage[i] = "mark"
    /\ anchors' = anchors \cup (IF provider = MentorSacco THEN {} ELSE Openings(i, {None}))
    /\ stage' = [stage EXCEPT ![i] = "parsed"]
    /\ UNCHANGED <<provider, today, happened, upload, created, batches, posted, treatment, entryVars, edits>>

-----------------------------------------------------------------------------
(* Manual entries: the account's sub-ledgers are read first. *)

(* A bug: the sub-ledger is optional. *)
Wrong_SubLedgerOptional(sub) == sub \in Live \cup {None}

Admissible(sub) == IF Live = {} THEN sub = None ELSE sub \in Live

CheckEntry(e, day, delta, sub) ==
    /\ entryStage[e] = "none"
    /\ day <= today /\ Admissible(sub)
    /\ entry' = [entry EXCEPT ![e] = [day |-> day, delta |-> delta, sub |-> sub]]
    /\ entryStage' = [entryStage EXCEPT ![e] = "checked"]
    /\ bare' = IF Live = {} THEN bare \cup {e} ELSE bare
    /\ UNCHANGED <<provider, today, happened, importVars, treatment, edits>>

InsertEntry(e) ==
    /\ entryStage[e] = "checked"
    /\ entryStage' = [entryStage EXCEPT ![e] =
                         IF entry[e].sub \in Live \cup {None} THEN "made" ELSE "refused"]
    /\ UNCHANGED <<provider, today, happened, importVars, treatment, entry, bare, edits>>

-----------------------------------------------------------------------------
(* Sub-ledgers. *)

Edit == edits < MaxEdits /\ edits' = edits + 1

CreateSubLedger(l, t) ==
    /\ treatment[l] = None /\ Edit
    /\ treatment' = [treatment EXCEPT ![l] = t]
    /\ UNCHANGED <<provider, today, happened, importVars, entryVars>>

UpdateSubLedger(l, t) ==
    /\ treatment[l] \notin {None, t} /\ Edit
    /\ treatment' = [treatment EXCEPT ![l] = t]
    /\ UNCHANGED <<provider, today, happened, importVars, entryVars>>

Referenced(l) ==
    \/ \E k \in posted : Tag(k) = l
    \/ \E e \in Entries : entryStage[e] = "made" /\ entry[e].sub = l
    \/ \E i \in Imports : upload[i] # None /\ l \in upload[i].selected

DeleteSubLedger(l) ==
    /\ treatment[l] # None /\ ~Referenced(l) /\ Edit
    /\ treatment' = [treatment EXCEPT ![l] = None]
    /\ UNCHANGED <<provider, today, happened, importVars, entryVars>>

Next ==
    \/ BankBooks \/ NextDay
    \/ \E i \in Imports :
          \/ \E from, to \in Days, selected \in SUBSET SubLedgers :
                UploadStatement(i, from, to, selected)
          \/ ParseStatement(i)
          \/ \E b \in Books : InsertTransactions(i, b)
          \/ SetSubLedgerOpenings(i) \/ MarkParsed(i)
    \/ \E e \in Entries :
          \/ \E day \in Days, delta \in Amounts, sub \in Books : CheckEntry(e, day, delta, sub)
          \/ InsertEntry(e)
    \/ \E l \in SubLedgers :
          \/ \E t \in Treatment : CreateSubLedger(l, t) \/ UpdateSubLedger(l, t)
          \/ DeleteSubLedger(l)

Spec == Init /\ [][Next]_vars

-----------------------------------------------------------------------------
(* Properties. *)

(* What the bank says: the balance of a sequence at the end of a day. *)
BankBalance(s, d) ==
    LET upTo == {k \in Movement : Of(k).seq = s /\ Of(k).day <= d}
    IN  Start[s] + SumFunction([k \in upTo |-> Of(k).delta])

SequencesOf(b) ==
    {s \in Sequence : BookOf[s] = b /\ \E n \in DOMAIN Sections[provider] : Sections[provider][n] = s}

(* The statement of i covers day d of the book to its end. *)
Covers(i, b, d) ==
    /\ d <= upload[i].to
    /\ \A k \in Movement : Tag(k) = b /\ Of(k).day = d => k <= upload[i].cut

(* For each day an anchored statement covers, whatever was imported before *)
(* or after it, overlapping or not, and whatever failed: the book shows    *)
(* what the bank shows, plus the manual entries of the latest anchor's day *)
(* or later.                                                               *)
Exact(a) ==
    \A d \in Days : a.day <= d /\ Covers(a.imp, a.book, d) =>
        LET bank == SumFunction([s \in SequencesOf(a.book) |-> BankBalance(s, d)])
        IN  BookValues(a.book, d) =
               {bank + NetEntries(a.book, o.day..d) : o \in Latest(Applicable(a.book, d))}

(* Of the books that are filed from one sequence. *)
AnchoredIsExact == \A a \in anchors : Cardinality(SequencesOf(a.book)) = 1 => Exact(a)

(* "Each sub-ledger is its own independent balance sequence", even when    *)
(* the statement has two sections with its heading: an anchored sub-ledger *)
(* shows what the bank shows of all its sections.                          *)
EveryBookIsExact == \A a \in anchors : Exact(a)

(* An opening balance is stored once every row it is to be replayed with   *)
(* is there, wherever the import stopped.                                  *)
AnchorsFollowRows ==
    \A a \in anchors : BookRows(a.imp, a.book) \subseteq posted

(* A parsed import anchors each book it posted rows of. *)
ParsedIsAnchored ==
    \A i \in Imports : stage[i] = "parsed" =>
        \A b \in Target(i) : BookRows(i, b) # {} =>
            \E a \in anchors : a.imp = i /\ a.book = b

BringsNothing(b, d) ==
    \A o \in Latest(Applicable(b, d)) :
        /\ \A k \in posted' \ posted : Tag(k) = b => Of(k).day \notin o.day..d
        /\ \A a \in anchors' \ anchors : a.book = b => a.day \notin o.day..d

(* "An older import's opening balance is superseded the moment a newer one *)
(* lands": a step that brings a book nothing from its latest anchor's day  *)
(* on leaves its balance as it is, older statements included.              *)
BackfillKeepsBalance ==
    [][\A b \in Books, d \in Days :
          /\ Applicable(b, d) # {} /\ entryStage' = entryStage
          /\ BringsNothing(b, d)
          => BookValues(b, d)' = BookValues(b, d)]_vars

Supersedes(e, d) == \E a \in Applicable(entry[e].sub, d) : a.day > entry[e].day

Moved(e, d) ==
    IF entry[e].sub = None THEN {v + entry[e].delta : v \in Balances(d)}
    ELSE {v + Signed(entry[e].sub, entry[e].delta) : v \in Balances(d)}

(* "What lets a manual entry added after an import still count": an entry  *)
(* moves the balance of its own day and of every later one by its amount,  *)
(* once, unless a later anchor has superseded it; but for the entry of an  *)
(* account that got its first sub-ledger while the entry was checked.      *)
EntryCounts ==
    [][\A e \in Entries : entryStage[e] # "made" /\ entryStage'[e] = "made" =>
          \/ e \in bare /\ Live # {}
          \/ \A d \in entry[e].day..LastDay :
                Balances(d)' = IF Supersedes(e, d) THEN Balances(d) ELSE Moved(e, d)]_vars
=============================================================================
