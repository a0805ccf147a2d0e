# A TLA+ model of the beyondSaving API

beyondSaving is a personal-finance back end: a FastAPI application over
Postgres, Redis and MinIO, and one worker process that parses uploaded bank
statements. These modules model the parts of it where several requests,
processes or stores meet, check them with TLC on small instances, and prove
the central facts for every instance with TLAPS. Paths below are relative to
the repository root, `src/`.

## The system

| Part | State it keeps | Operations | Interacts with |
|---|---|---|---|
| Upload endpoint, `app/api/statement_imports.py` | `statement_imports`, `statement_import_sub_ledgers`, MinIO objects | upload, list | pushes the import id on the Redis list `parse_jobs` |
| Worker, `app/worker.py` | the job it has popped | pop, `process_job` | the list, MinIO, the parsers, `transactions`, the import's rows |
| Parsers, `app/parsers/` | none | one function per provider | called by the worker |
| Reconciliation, `app/api/transactions.py`, `app/repositories/transactions.py` | `allocations` (append-only) | split one transaction, bulk allocate, manual entry, listings | raises alerts, feeds every listing of budgets |
| Alerts and inbox, `app/repositories/notifications.py`, `app/services/budget_state.py` | `notifications` | generate, list by page, mark read | budgets, allocations |
| Budget plans, `app/repositories/budget_plans.py` | `budget_plans`, `budgets` | create plan, add / update budget, list, money flows | allocations |
| Reports and dashboard, `app/repositories/reports.py`, `dashboard.py` | none | aggregations, exports | everything above |
| Accounts, `app/repositories/accounts.py` | `accounts` | create, update, deactivate, list, book balance | imports, sub-ledgers, transactions |
| Sub-ledgers, `app/repositories/sub_ledgers.py` | `sub_ledgers` | create, rename, delete, list | imports, book balance |
| Credentials, `app/api/auth.py`, `app/api/users.py`, `password_reset_tokens.py` | `users`, `password_reset_tokens` | sign-up, login, reset request / confirm, password change, profile | - |
| Sessions and admin, `app/api/admin.py`, `app/core/security.py` | tokens (signed, not stored), impersonation audit rows | impersonate, end, metrics | every endpoint, through the token |
| Money plans, `app/repositories/money_plans.py` | `money_plans` | create, list, delete a draft | converted and archived from outside this code |
| Categories, transfer reasons | one table each | create, list, rename | reconciliation reads them |

The database schema lives in a sibling repository. What the models use of it
is what the code relies on: `UNIQUE (account_id, dedupe_hash)`, `UNIQUE
(plan_id, category_id)`, unique sub-ledger names per account, the foreign keys
(an insert under a vanished account or sub-ledger fails; a sub-ledger that is
referred to is not deleted), and the default `pending` of an import's status.

### What is hard about it

* Almost nothing runs in a database transaction (only sign-up and the two
  password-reset functions do). Every other handler is a sequence of
  statements that other requests, and the worker, run between.
* A job leaves the Redis list before it is processed; nothing puts it back.
* A call to a store may take effect and lose its reply; the catch-all handlers
  then record or report a failure of something that happened.
* Names, providers and limits are read when they are used, not when the user
  chose them.
* The same figure is computed by several queries, at different moments, in
  different endpoints.

The full list, with the line each one bites at and the properties that cover
it, is under `hazards` in `PROJECT.json`.

### What makes each part correct

* Imports: a job that is queued can be processed; `parsed` means complete;
  rejected means that nothing was written; each row is posted once; accepted
  imports come to an end.
* Reconciliation: a transaction is never allocated beyond its amount; a bulk
  request completes what it names; an alert is raised for each upward crossing
  and is true.
* Plans: one plan per period and date; the figures of an answer fit together
  and are those of a moment while it was made.
* Credentials: a link works once and with effect, and, but for races of two
  requests, only the newest one works.
* Accounts: provider and number fit the type; no number is used twice; the book
  balance of a day that statements cover is the bank's, plus the manual entries
  made since.
* Sessions: a read-only session changes nothing, whatever it calls; each support
  token is audited; sessions do not chain and end once.
* Money plans and inbox: a settled plan is never deleted and each answer is true;
  walking the pages skips nothing unless something is read meanwhile.
* Parsers and reports: what is posted is what the bank booked, once, however
  statements overlap (Equity Bank's may not be: see the runs); a report
  accounts for all it selects; the views agree with each other and with the bank.

## The modules

| Module | Models | Extends / uses |
|---|---|---|
| `ImportLifecycle` | abstract: the life of an import and what it may post | - |
| `ImportPipeline` | upload endpoint, list, worker, sub-ledger and provider edits | refines `ImportLifecycle` |
| `ImportPipelineProofs` | theorems about it, that it implements `ImportLifecycle`, and that what it files is complete | TLAPS |
| `SetSums` | sums over finite sets, for the proofs below that add up | TLAPS |
| `BudgetState` | `derive_budget_state` and the rank of states | - |
| `Reconciliation` | both allocation endpoints and the alerts | `BudgetState` |
| `ReconciliationProofs` | theorems about it | `SetSums`, TLAPS |
| `BudgetPlans` | creation of a plan | - |
| `PlanListing` | listing, money flows and export of plans | `BudgetState` |
| `PlanRequests` | creating plans beside listing them | extends both |
| `BudgetPlansProofs` | theorems about the three | `SetSums`, TLAPS |
| `BookBalance` | the balance query under imports, manual entries and sub-ledger edits | - |
| `BookBalanceProofs` | theorems about it | `SetSums`, TLAPS |
| `Credentials` | reset links and password change | - |
| `CredentialsProofs` | theorems about it | TLAPS |
| `AuthGate` | tokens, and what is let through to a handler | - |
| `Sessions` | login, impersonation, its audit and end, roles | `AuthGate` |
| `Accounts` | creation, partial update, deactivation | `AuthGate` |
| `MoneyPlans` | drafts, their deletion | `AuthGate` |
| `Inbox` | pages, filters, marking as read | `AuthGate` |
| `Api` | the four of them behind the gate, interleaved | extends them |
| `ApiProofs` | theorems about each and about `Api` | TLAPS |
| `StatementParsing` | from the lines of a statement to rows, as functions | - |
| `Reports` | reports, summaries, statement, dashboard, as functions of the tables | - |
| `Figures` | a bank, imports, entries and allocations, and what the reports make of them | extends both |
| `FiguresProofs` | theorems about the three | `SetSums`, TLAPS |
| `MC*` | constants and symmetry for TLC | the module they are named after |

### ImportPipeline

A request is named by the import id it draws (a fresh UUID), so `Imports` is
both. `upc[i]` is the statement the upload handler is about to run:
`put_object`, `create`, `select`, `lpush`, then `accepted` (201). `wpc[w]` is
the call `process_job` is about to make. Each call is an action with three
outcomes: it takes effect, it takes effect and its reply is lost, it fails
without effect (`UploadFails`, `CallFails`). `Crash` forgets the job wherever
the worker is. Faults and edits are bounded by `MaxFaults` and `MaxEdits`.

A parser is a constant: for a provider and a file it accepts, refuses
(`StatementParseError`) or raises, and gives the fingerprints of the rows, per
section for Mentor Sacco. A transaction is its fingerprint on its account, with
the import that posted it and the sub-ledger it is tagged with.

Whether two files have a fingerprint in common is a matter of their
texts, which `Figures` has.

A batch of sub-ledgers is inserted in any order, which includes the order of
the loop. `RemoveAccount` has no endpoint; the worker's own comment expects
that an account can go, so the model lets it.

Left out: the figures written with `parsed` (period, row count; the opening
balances are in `BookBalance`), the 400 for a malformed id, a `sub_ledger_ids`
list with duplicates, the checks of size and content type, and the listing.

### Reconciliation

One user's requests. `allocated` and `spent` are the two sums the code reads
from the append-only table. A split request is its transaction, its total and
the share of each category; a bulk request picks a category or none for each of
its transactions. The checks that read only what never changes (ownership,
category type, transfer source) come together in the admission; the others
are steps. `generate_budget_alerts` is query by query, per group and budget; an exception in
it ends the alerting and not the request. Amounts are whole cents: the
floating-point sum of the over-allocation check is listed as a hazard and not
modelled, nor is the near threshold's change.

### BudgetPlans

The window's ends are instants, in parts of a day. A stored instant is
cast by the database, whose session is in UTC, to its UTC date; a DATE
parameter carries the date of the datetime the client sent, in the client's
offset (asyncpg encodes the calendar date of the object it is given). `met` remembers
which plans the overlap check saw. A plan is never changed or deleted by the
API.

### PlanListing

A reader asks for one of three answers and then makes their queries one by one.
A `line` stands for the allocations that agree in owner, day, direction,
category and being a transfer. Plans are fixed; budgets are added and changed;
allocations of this and other users are inserted between any two queries.
`limit`, `consumed` and `state` are those of the code; `remaining` and
`percent` are functions of them and left out. `PlanOrder` lists each plan once, the
order of the listing's query, and the export takes the plans it is given in that order.

`PlanRequests` puts both specifications side by side. They share `budget_plans` only, which
a listing reads once, when it begins.

### BookBalance

The bank is modelled too: a ledger of movements in time order, booked one by one
as days pass. A statement covers some days as far as they were booked when it was
downloaded. A movement is a row of `transactions` once posted (`posted`), under the
sub-ledger its section is filed under, or under none. `BookValues` is the query:
the latest anchor at or before the day, and what is filed from its day on. It is a
set because nothing orders two anchors of a sub-ledger with the same date. `Balances`
is the account's: the sub-ledgers' sum as soon as there is one.

The upload is one step, and a sub-ledger's heading is fixed: `ImportPipeline` has the
upload's steps and the renaming. A failed call or a crash is a next step that is
never taken: nothing in the code takes such an import up again. Rows are at their
movement's own dates and the statement starts with the first movement of its first
day, which is what the providers' date ranges give. A movement is the same row in every statement,
as it is with all layouts but Equity Bank's (see `Figures`). Assumed of the constants: the ledger
is in the order of days, each of its movements is of a section its provider's statements
have, and the tables are finite.

### Credentials

One user. The two reset functions are READ COMMITTED transactions: what they
wrote shows when they commit, a row they wrote makes the next writer wait,
and a waiting DELETE passes over a row that is used or gone by then. `sees` is
the snapshot of the DELETE. The password change is a SELECT and an UPDATE of
their own. The email, hashing and tokens' randomness are abstracted: a token
is named by the request that made it and a hash by its password. A deadlock
of two DELETEs, which the database would end by failing one, is covered by the
failure of a statement. `VerifyCurrent` and `WritePassword` are separate steps, as
in the code, so a reset may commit between them and be overwritten.

### AuthGate, Sessions, Accounts, MoneyPlans, Inbox and Api

`AuthGate` is the dependency every handler has: no table is read, the claims of the
token are all there is, and a read-only token passes with a safe method only. Each
component is a specification of its own, with its requests (`Ask...`, or the handler when
it is a single statement) apart from the steps of requests under way; `Api` lets a
request in with a token that is good then (`bearer`), under the method of its route, and
leaves its later steps alone. So a handler that began under a token runs on when the
caller's role changes, as in the code.

In `Sessions` the handler of an impersonation reads the caller's role twice, then the
target's, writes the audit row and signs the token. Roles have no endpoint; they change
from outside (`SetRole`). A token that has expired, and a handler that fails half-way,
are ones not heard of again, so neither needs a step. `Accounts` validates what an update
gives against the account it read and writes the given fields, or 409; `crossed`
remembers the accounts written after another update had changed the type. In `MoneyPlans` a
draft can become `converted` or `archived` between the two queries of a deletion (`Settle`;
external, no endpoint here does it). `Inbox` is one user's: newest first, cut by limit
and offset.

Left out: nickname and currency of an account, the lines and summary of a money plan,
the counts and the date filter of the inbox, the administrator's listings.

### StatementParsing, Reports and Figures

`StatementParsing` and `Reports` are pure operators: parsers on the lines of a statement,
and reports on the two tables. `Figures` gives them states: a bank with its movements, the
four layouts it may print, statements of any stretch of movements that starts on a day's
first, manual entries, allocations that may have checked an older sum (`seen`). An import is
one step, since `ImportPipeline` has its steps; a statement printed before the bank's
last movement is one that ends earlier. A setup says which layout, which movements,
how many of everything, and whether faults happen: a line lost in the extraction, or a
heading or total not found. `debt` marks an M-Pesa overdraft row, which prints the
outstanding debt in place of the balance. `FiguresAssumption` says what a book is: in time
order, without movements of nothing, debts on M-Pesa only, days among `Days`.

What is printed around a line matters for Equity Bank: its parser collects every line
that is no transaction's, from the top of the file on, and puts them in front of the next
transaction's description, which goes into its fingerprint (`WithAbove`, `EquityLines`). So a
movement has the words of its text that are printed `below` its line, and a statement its
`furniture`: a heading (letterhead, account, period, columns) above its first line and on top
of each further page. A movement's text is then a matter of the statement it is in (`Above`,
`TextIn`); `Readings` are the movements with each text that they were read with.

The account statement sorts by date and creation; rows of one batch are created
at one instant, so the order within a day and batch is any (`Orders`), and
`StatementIsTheBanks` is over all of them.

Left out: how a PDF's text is cut into lines, rows that are not Completed or have no
balance, names, colours, the rendering of a report as JSON, CSV or PDF, paging, the
statement's filters by status and category (they hide rows and change no balance), the
dashboard's budget total.

## The runs

| Run | Shows |
|---|---|
| `import_races` | two uploads, two workers, an account with a sub-ledger, a fault and an edit: `EnqueuedIsDurable`, `ParsedIsComplete`, and that the pipeline implements `ImportLifecycle` (no row twice, no row changing hands, failure is final) |
| `import_sections` | one statement with sections, two sub-ledgers, four kinds of file, two faults, two edits: `RejectedWroteNothing`, `RowsFiledAsSelected`; accepted imports settle unless something failed (`AcceptedSettles`), and the queue and the worker run out of work whatever fails (`QueueDrains`) |
| `alloc_concurrent` | two requests at once, a fault and a limit edit: bulk requests complete (`BulkReconciles`), alerts are true (`AlertsAreTrue`), an undisturbed crossing is announced once (`OneAlertUndisturbed`), only stale checks over-allocate (`OnlyRacesOverAllocate`) |
| `alloc_race` | *violated* `NeverOverAllocated`: two requests over-allocate a transaction |
| `plans` | within one answer, budgets stay within totals (`BudgetsWithinTotals`) and the cap's state is no better than a budget's (`CapCoversBudgets`); each total lies between the sums when the request came in and now (`TotalsAreBetween`); an uncapped budget has no state (`TypeOK`). Every overlap of two plans is due to a race or a client's offset (`OverlapHasCause`); each refusal names an overlap (`RefusedForOverlap`) |
| `plan_owners` | *violated* `TotalsAreOwn`: totals include other users' allocations |
| `book_balance` | two statements and a manual entry: each covered day shows the bank's balance (`AnchoredIsExact`), older statements do not disturb newer ones (`BackfillKeepsBalance`), an anchor never precedes its rows (`AnchorsFollowRows`), a parsed import leaves its anchors (`ParsedIsAnchored`), a manual entry counts once (`EntryCounts`) |
| `book_sections` | *violated* `EveryBookIsExact`: of two sections with one heading, one opening balance is lost |
| `reset_links` | a link is consumed once (`ConsumedOnce`) and with effect (`UsedIsEffective`), its life has no way back (`LinkLifeCycle`), two valid links mean a race (`TwoLinksNeedRace`), and nobody waits for a row for ever (`RequestsEnd`) |
| `api` | three requests of two users with login or support tokens: a read-only session changes nothing (`ReadOnlyChangesNothing`), sessions do not chain without a promotion (`ChainNeedsPromotion`) and end once (`EndsOnce`), an account that does not fit is the work of a race (`MisfitNeedsRace`), deletions and their answers are true (`DeletionsAreTrue`), pages skip nothing but after a reading (`SkipNeedsReading`) |
| `figures` | four layouts, overlapping statements in any order, entries and allocations: what is posted are the bank's movements, once for each text they were read with (`PostedAreMovements`), recorded openings are true (`OpeningIsTrue`), a report accounts for all it selects (`ReportAccountsForAll`), dashboard, report and account summary agree (`ViewsAgree`), the account statement shows the bank's balances (`StatementIsTheBanks`) |
| `figures_overlap` | *violated* `OverlapsPostOnce`: a movement that one Equity Bank statement begins with and another has inside is posted twice |

Each violation is a disagreement between the code and a sentence beside it;
`findings` in `PROJECT.json` quotes the sentence. Every property of the other
runs has a mutant in its module (`Wrong_...`, next to the definition it would
replace): a plausible mistake under which TLC finds that property violated.

### What the passing runs say of the code, in their exceptions

A property that holds with an exception says where the code falls short of what a
reader might expect. These exceptions are reachable:

* `OverlapHasCause`: one client with an offset, its requests one after the other, creates
  plans that overlap: the check reads the client's date (`app/repositories/budget_plans.py:59`) where
  stored windows are cast to UTC dates (50-52).
* `OneAlertUndisturbed` is about budgets that a request reaches with one group of rows: a
  bulk request over two dates announces a crossing twice or never, as each date's group
  takes all the request's rows as consumed after it and only its own rows as new
  (`app/repositories/notifications.py:115`, against its docstring, 52-54).
* `PostedAreMovements` counts a movement once for each text that it was read with. With
  Equity Bank's layout there are several: the movement that begins one statement and
  stands inside another has the heading in front of it in the first and a neighbour's wrapped
  words, or nothing, in the second; likewise the first of a page. `figures_overlap` has it with one
  heading on all statements. `StatementIsTheBanks` is about statements without
  such movements.
* `PostedAreMovements` excuses movements of equal text and amount: the fingerprint has
  neither date nor direction, of which step 4 of
  `docs/provider-onboarding-runbook.md` asks both. It says nothing once a line was lost,
  since such a statement is accepted: amounts are derived from the balances that the
  replay then checks (`ReplayRefusesNone` proves it for NCBA Bank and Equity Bank; the
  runbook, 86-90 and 298-303, takes the replay for a safeguard).
* `OpeningIsTrue` excuses a Mentor Sacco section that states no opening balance and begins
  with a decrease, and leading M-Pesa rows of one moment that fit in two orders.
* `StatementIsTheBanks` needs one row to be the first: with ties among the first day's rows,
  all balances of the account statement are off by what is ordered before the anchor. An
  empty window shows the starting balance, not that of its day. Entries made by hand before
  a later statement covers them count in the account statement, while the book balance
  supersedes them; the account statement knows no sub-ledgers.
* `ViewsAgree` needs every row in its account's currency: a statement may name its own
  (Equity Bank), and then the dashboard counts rows of another currency under the
  account's (`dashboard.py:40`).
* `ReportAccountsForAll` adds the transactions with a transfer back: the totals leave such a
  transaction out entirely, while the categories keep what else was split from it.
* `MisfitNeedsRace` and `ChainNeedsPromotion`: the races they name do happen.

Of hazards that are not listed since another stands for them: a selection is demanded of every
account with sub-ledgers and honoured for Mentor Sacco only (`worker.py:192`); a section
without rows leaves no anchor (`parsers/base.py:117`); a split whose reply is lost is
sent again and nothing identifies the repetition (`transactions.py:349`).

### Bounds, and why they are enough

Two of each actor make every pairwise race. One fault anywhere reaches every failure
point, and two (`import_sections`) reach a fault in the handling of a fault. Fingerprints
h1, h2, h3 give two statements a common row and a row of their own. Amounts of two
units against limits 0, 1 and 4 put the consumption below, on and above the limit
and the near threshold. Half-days and offsets of half a day are the coarsest
grain at which a client's date and the UTC date differ; two days are enough for
windows that meet, touch or are apart. The plan listing loops over plans and
carries nothing from one to the next, so the pass run lists one plan, with an
allocation inside its window and one outside. Two days, with two movements on the
first, give statements that overlap, leave a gap (one cut off on its first day) or come
in the wrong order; the account starts with no sub-ledger or with two, and one edit
reaches the first sub-ledger, a deletion and a change of treatment.

In `api`, three calls are the fewest in which a support token is granted, used for a second
impersonation and ended, and in which two updates cross with a third; one session, one change
of role, two accounts, one money plan, two notifications on pages of one each meet
every guard from both sides; sessions are always in use, with one other component at a
time (`Together`), as the others share no table. In `figures`, three movements in four moments of two
days give ties within a moment, within a day, and gaps; increases and decreases of
different sizes tell an amount from its sign; two statements overlap, nest or leave a gap, Equity Bank's too, with two headings, one
or two pages and a wrapped text or none; two allocations reach and pass the amount. In `plans`,
plans are created or listed, one at a time (`Together`; the proofs have both at once).
Symmetry is used only over requests, calls and readers, which nothing orders or
compares, and never in a run with a liveness property. Deadlock is not checked, since
a system that has served its finite set of requests stops.

### Fairness

`import_sections`: weak fairness of each upload handler (the event loop resumes a
request whose call has returned) and each worker (the loop in `run_worker` never
ends, and `restart: unless-stopped` brings the container back). `reset_links`: weak
fairness of each request. Nothing is assumed about faults, edits or new
requests. `AcceptedSettles` excuses imports once a fault has occurred, as the code
does nothing for an import whose job was lost; `QueueDrains` excuses nothing.

## The proofs

`tlapm` checks these for any sets of actors, values and bounds that satisfy the
modules' assumptions about their constants.

* `ImportPipelineProofs`. `TypeCorrect`: `TypeOK` is inductive with the facts that
  a request is known once admitted, that ids in the list are released and that
  a worker past reading has a provider with a parser. `RejectsAreClean`
  (`RejectedWroteNothing`): needs `OnceOnly`, an id is in the list or in one
  worker's hands at most once, since two workers on one import could reject it
  after the other had posted; then rows exist only from an import whose worker
  is past validation (`PostedIsLate`), and a rejection is made from before it
  (`RejectedIsOver`). `EnqueuedAfterPersisted` (`EnqueuedIsDurable`): by the
  handler's position, each store has what the steps before it wrote.
  `PipelineImplementsLifecycle` (`ImplementsLifecycle`): the status
  tells where an import stands (`Fate`: absent before its row is written, at most pending
  while it is listed or its worker has not reported, gone with its account) and rows lie on their upload's account
  (`Placed`); with these and `RejectedIsOver` each action maps to one step of `ImportLifecycle` or a
  stutter. `RowsAreFiled` (`RowsFiledAsSelected`): what an import selected stays its
  account's, as the foreign keys keep it (`Owned`), and a worker's batches are for selected
  sub-ledgers or of an account that is gone (`Chosen`). `ParsedImportsAreComplete`
  (`ParsedIsComplete`): on its way to `mark_import_parsed` a worker has, for all it read, a
  batch waiting or the rows on the account and the opening balance derived (`Progress`),
  and no step of anyone takes rows or anchors from an import whose account remains (`Keeps`).
* `SetSums`. What the other modules use of sums over finite sets: adding and removing an
  element, unions, monotonicity, sums by parts (`SumByParts`: grouped by a key) and
  under a renaming (`SumRenamed`). The library's induction theorems take an operator, which
  is out of the provers' reach; here induction is over a set of sets, from the
  well-foundedness of inclusion.
* `ReconciliationProofs`. `TypeCorrect`. `BulkAlwaysReconciles`: a sum read
  earlier is at most the current one (`WithinSeen`), so the rows a bulk request
  computed from it still complete each transaction. `OnlyStaleChecksOverAllocate`:
  the same invariant, with the guard that was evaluated. `StateNeverImproves`:
  `ExpenseState` is monotone in the consumption, for zero limits too. `AlertsNeverCryWolf`
  (`AlertsAreTrue`) and `AlertsExactlyOnce` (`OneAlertUndisturbed`), from one more invariant
  (`AlertInv`): consumption never shrinks, so an alert once reached stays reached (`AlertsReached`);
  a request alerts only for budgets its own rows reach (`Work`, `Note`); and for a budget that nobody
  else has allocated to, a crossing is either still ahead of the request (a group to look at, a budget
  found, an alert to insert) or has its one notification (`AlertedOnce`).
* `ApiProofs`. Each component's invariants are inductive with little added: that an answer
  follows from what the row was (`MoneyPlansInv`), that an update past its read has a type seen
  and what it gives fits that type (`AccountsInv`), that a signed token has its
  audit row and an impersonation past its checks an administrator
  (`SessionsInv`). `ApiImplementsComponents`: each step of `Api` is a step or a stutter of
  every component's own specification, so what is proved of the component holds behind the gate
  (`ApiInvariants`, `ApiEndsOnce`). `ReadOnlyHolds` needs one thing more (`Gated`): a request
  under way that will write came with a token that may. `ApiPagesSkip` (`SkipNeedsReading`):
  the places of a listing are all taken and an arrival moves nothing forward, so that what a
  page leaves over is on the next one (`NothingBetween`).
* `CredentialsProofs`. `TypeCorrect`, `LinksWorkOnce` (`ConsumedOnce` and
  `UsedIsEffective`), `OnlyRacesLeaveTwo` (`TwoLinksNeedRace`), `LinksEnd`
  (`LinkLifeCycle`), from one invariant: the row locks exclude (`Exclusive`), what a request
  saw and did not delete explains every link that is left (`Issued`), and a used link was
  committed with its password (`Consumed`).
* `FiguresProofs`. `ReplayRefusesNone`: amounts derived from the balances satisfy the
  replay of those balances, whichever line was lost. `FiguresTyped`: each parser, on each
  statement of each book, returns rows the table can hold (the invariant `Typed`; its lemmas type
  the chaining, the sorting and the reordering of leading rows). `ReportsAccountForAll`: what
  is not reconciled is summed by transaction in the totals and by target in the
  categories; both are sums by parts of the same allocations. `ViewsAlwaysAgree`: likewise by
  account and by currency. `OpeningsAreTrue` (`OpeningIsTrue`): the replay of a statement's
  balances gives back what they were printed from, so the derived opening is the anchor's;
  for M-Pesa the leading rows are the ones of the first moment, and if one order of them
  fits, it is the bank's. `MovementsPostedOnce` (`PostedAreMovements`), by the
  invariant `Ledger`: each posted row shows a movement some accepted import covers, with the text
  that it has in that import's statement, the fingerprint of each movement in each statement is
  posted, and fingerprints differ pairwise. It is inductive only while
  no line is lost (`Faultless`), as the row after a lost one shows no movement.
  `StatementsAreTheBanks` (`StatementIsTheBanks`) assumes that each movement was read with one
  text of its own (`Sound`), so that rows and movements correspond (`IsMove`), and needs two facts more (`Records`): batches are in the order of the
  table and an entry by hand has one of its own (`Batched`), and each row was posted from a
  statement that begins a day and was posted in full by then (`Sourced`). So the anchor is the
  first covered movement (`AnchorIsFirst`), the rows before it in any order are the entries that are not
  since it (`AnchorPlace`), and what is left of the sums are the bank's movements and the
  entries since (`ShownIsWorth`).
* `BookBalanceProofs`. `AnchorsAreBacked` (`AnchorsFollowRows`) and
  `ParsedLeavesAnchors` (`ParsedIsAnchored`), from one invariant: the books of an import
  that are not waiting have their rows (`Filed`), anchors belong to imports past
  inserting and to their books (`AnchorsOf`), and an import past writing its openings
  has them (`Anchored`). For the amounts (`Amounted`): the bank has booked every movement of
  the days before today, so a statement has all those of the days before its last, each anchor
  is the opening balance of its book's rows, and an entry checked while there were sub-ledgers is of one. `AnchoredBooksAreExact` (`AnchoredIsExact`): the latest anchor's opening and the
  movements since add up to the bank's balance, the ones before it being left out by the
  query. `OlderStatementsAreSuperseded` (`BackfillKeepsBalance`) and `EntriesCount`
  (`EntryCounts`) are of single steps: the rows a step adds lie before the latest anchor, or are one entry.
* `BudgetPlansProofs`. About `PlanListing`: `TypeCorrect`; `TotalsNeverLie` (`TotalsAreBetween`):
  lines only grow, so that a query's sum lies between the sums at the request and now;
  `BudgetsStayWithin`, `CapCovers`: the rows of an answer are what was consumed at
  their own query (`RowsTrue`), one for each budget asked for (`RowsOnce`), and a
  total reads after them, so it is no less than their sum. About `BudgetPlans`:
  `CreationTypeCorrect`. `OverlapsAreExplained`: a row's check found no
  conflict among the plans it met; with no offset `OwnDate` is `UtcDate`, and
  overlap is symmetric. `RefusalsAreJustified`: plans are never removed, so the
  one that caused a refusal is still there. `PlanRequestsImplementBoth`: each step of
  `PlanRequests` is one of either specification and a stutter of the other, so that all of this holds
  of plans that are created and listed at once (`PlanRequestsInvariants`).

Every safety invariant and action property that a passing run checks is stated by a theorem. Only
model-checked: liveness (`AcceptedSettles`, `QueueDrains`, `RequestsEnd`), which rests on
fairness and so on ENABLED.

## Assumptions about libraries

asyncpg's `executemany` is atomic (0.24 and later; the repository pins 0.29).
redis-py does not retry a failed command. Row locks and snapshots are those of
PostgreSQL's READ COMMITTED. One worker is deployed; the model allows several.

## Not modelled

* Admin metrics: four independent counts, read-only.
* Start-up, settings and the clients' construction. What happens when a client's call
  fails is in the modules that make the call.
* Sign-up (one transaction), login's password check and the profile (one UPDATE each).
* Categories and transfer reasons as tables: one INSERT or one UPDATE, nothing is
  deleted and no type changes; `Reconciliation` takes them as given.
* The rounding of the floating-point over-allocation check: amounts are whole cents.
* The extraction of text from a PDF, but for a line that is lost.

## What is left

Sign-up, and the rounding of the over-allocation check.
