--------------------------- MODULE ImportPipeline ---------------------------
(***************************************************************************)
(* The statement-import pipeline: the upload endpoint                      *)
(* (app/api/statement_imports.py) stores a file in MinIO, writes the       *)
(* import's rows in Postgres and pushes its id on a Redis list; the        *)
(* parse-job worker (app/worker.py) pops the id, parses the file and       *)
(* writes the transactions.  Every call to a store is a step of its own:   *)
(* it may fail, or take effect and lose its reply, and a process may stop  *)
(* between any two of them.  Owners edit the account in the meantime.      *)
(*                                                                         *)
(* An import id is the uuid4 of one upload request, so Imports are also    *)
(* the requests; a client that retries uses another one.                   *)
(*                                                                         *)
(* What a parser finds in a file is a constant: whether two files have a   *)
(* hash in common is for their texts to say (see Figures, where a movement *)
(* may have a hash per Equity Bank statement that it is printed in).       *)
(***************************************************************************)
EXTENDS Naturals, Sequences, FiniteSets

CONSTANTS Imports, Workers, Accounts, SubLedgers, Names, Files, Hashes,
          Providers,      \* values of accounts.provider
          PARSERS,        \* the providers with a registered flat parser
          MentorSacco,    \* the provider whose statements have sections
          ParseOutcome,   \* what a provider's parser does with a file
          FlatRows,       \* dedupe hashes a flat parser finds in a file
          Headings,       \* section names of a file
          SectionRows,    \* dedupe hashes of one section of a file
          None,
          MaxFaults,      \* bound: store failures, lost replies and crashes
          MaxEdits        \* bound: edits of an account and its sub-ledgers

Parsers == PARSERS \cup {MentorSacco}

ASSUME ConstantsAssumption ==
    /\ PARSERS \subseteq Providers /\ MentorSacco \in Providers \ PARSERS
    /\ ParseOutcome \in [Parsers \X Files -> {"ok", "rejected", "error"}]
    /\ FlatRows \in [PARSERS \X Files -> SUBSET Hashes]
    /\ Headings \in [Files -> SUBSET Names]
    /\ SectionRows \in [Files \X Names -> SUBSET Hashes]
    /\ None \notin Imports \cup SubLedgers \cup Providers \cup Accounts
    /\ MaxFaults \in Nat /\ MaxEdits \in Nat

VARIABLES
    provider,   \* accounts.provider
    removed,    \* accounts deleted outside the API, with all they own
    owner,      \* account of each sub-ledger; None before its creation, "deleted" after
    name,       \* sub_ledgers.name
    upc,        \* where each upload request stands
    request,    \* account, file and sub_ledger_ids of an admitted request
    bucket,     \* imports whose file is in MinIO
    status,     \* statement_imports.status, "absent" when there is no row
    detail,     \* statement_imports.error_detail
    selected,   \* statement_import_sub_ledgers
    anchored,   \* the selected sub-ledgers whose opening balance is recorded
    queue,      \* the parse_jobs list, oldest first
    wpc,        \* where each worker stands in process_job
    job,        \* the import a worker works on
    parsedAs,   \* the provider it read for that import
    todo,       \* the (sub-ledger, transactions) pairs it still has to insert
    openings,   \* the sub-ledgers whose opening balance it derived
    txns,       \* the statement rows of the transactions table
    faults, edits

accountVars == <<provider, removed, owner, name, edits>>
uploadVars  == <<upc, request, bucket>>
workerVars  == <<wpc, job, parsedAs, todo, openings>>
vars == <<accountVars, uploadVars, workerVars, status, detail, selected,
          anchored, queue, txns, faults>>

Request     == [account : Accounts, file : Files, selection : SUBSET SubLedgers]
Batch       == [ledger : SubLedgers \cup {None}, rows : SUBSET Hashes]
Transaction == [account : Accounts, hash : Hashes, import : Imports,
                ledger : SubLedgers \cup {None}]

ASSUME NoneAssumption == None \notin Request

Uploading == {"put_object", "create", "select", "lpush"}
UploadPc  == {"idle", "accepted", "rejected", "failed"} \cup Uploading
Marking   == {"no parser", "rejected", "failing"}
WorkerPc  == {"brpop", "read", "fetch", "parse", "selection", "insert",
              "openings", "parsed"} \cup Marking

TypeOK ==
    /\ provider \in [Accounts -> Providers]
    /\ removed \subseteq Accounts
    /\ owner \in [SubLedgers -> Accounts \cup {None, "deleted"}]
    /\ name \in [SubLedgers -> Names]
    /\ upc \in [Imports -> UploadPc]
    /\ request \in [Imports -> Request \cup {None}]
    /\ bucket \subseteq Imports
    /\ status \in [Imports -> {"absent", "pending", "parsed", "failed"}]
    /\ detail \in [Imports -> Marking \cup {"none"}]
    /\ selected \in [Imports -> SUBSET SubLedgers]
    /\ anchored \in [Imports -> SUBSET SubLedgers]
    /\ queue \in Seq(Imports)
    /\ wpc \in [Workers -> WorkerPc]
    /\ job \in [Workers -> Imports \cup {None}]
    /\ parsedAs \in [Workers -> Providers \cup {None}]
    /\ todo \in [Workers -> SUBSET Batch]
    /\ openings \in [Workers -> SUBSET SubLedgers]
    /\ txns \subseteq Transaction
    /\ faults \in 0..MaxFaults
    /\ edits \in 0..MaxEdits
    /\ \A w \in Workers : wpc[w] = "brpop" <=> job[w] = None

Init ==
    /\ provider \in [Accounts -> Providers]
    /\ removed = {}
    /\ owner \in [SubLedgers -> Accounts \cup {None}]
    /\ name \in [SubLedgers -> Names]
    /\ \A l, m \in SubLedgers :
           l # m /\ owner[l] = owner[m] /\ owner[l] # None => name[l] # name[m]
    /\ upc = [i \in Imports |-> "idle"]
    /\ request = [i \in Imports |-> None]
    /\ bucket = {}
    /\ status = [i \in Imports |-> "absent"]
    /\ detail = [i \in Imports |-> "none"]
    /\ selected = [i \in Imports |-> {}]
    /\ anchored = [i \in Imports |-> {}]
    /\ queue = <<>>
    /\ wpc = [w \in Workers |-> "brpop"]
    /\ job = [w \in Workers |-> None]
    /\ parsedAs = [w \in Workers |-> None]
    /\ todo = [w \in Workers |-> {}]
    /\ openings = [w \in Workers |-> {}]
    /\ txns = {}
    /\ faults = 0
    /\ edits = 0

-----------------------------------------------------------------------------
(* Helpers. *)

SubLedgersOf(a) == {l \in SubLedgers : owner[l] = a}
AccountOf(i)    == request[i].account
FileOf(i)       == request[i].file
HashesOn(a)     == {t.hash : t \in {u \in txns : u.account = a}}
RowsOf(i)       == {t \in txns : t.import = i}
Queued          == {queue[k] : k \in 1..Len(queue)}

(* One fault of the budget is spent on this step. *)
Fault == faults < MaxFaults /\ faults' = faults + 1

(* The order of the handler's side effects. *)
Wrong_EnqueueBeforeSelection ==
    [put_object |-> "create", create |-> "lpush", lpush |-> "select", select |-> "accepted"]
After ==
    [put_object |-> "create", create |-> "select", select |-> "lpush", lpush |-> "accepted"]

(* The reply to the upload handler's call: it goes on, or the reply is     *)
(* lost and the catch-all answers 500.  Nothing done so far is undone.     *)
UploadReply(i) ==
    \/ upc' = [upc EXCEPT ![i] = After[upc[i]]] /\ UNCHANGED faults
    \/ upc' = [upc EXCEPT ![i] = "failed"] /\ Fault

(* The worker forgets its job and goes back to BRPOP. *)
Release(w) ==
    /\ wpc' = [wpc EXCEPT ![w] = "brpop"]
    /\ job' = [job EXCEPT ![w] = None]
    /\ parsedAs' = [parsedAs EXCEPT ![w] = None]
    /\ todo' = [todo EXCEPT ![w] = {}]
    /\ openings' = [openings EXCEPT ![w] = {}]

(* process_job continues at next; "brpop" means that it returned. *)
Goto(w, next) ==
    IF next = "brpop"
    THEN Release(w)
    ELSE wpc' = [wpc EXCEPT ![w] = next] /\ UNCHANGED <<job, parsedAs, todo, openings>>

(* Where an exception raised by the worker's current call leads: to the    *)
(* generic mark_import_failed, or, if that one raised it, to a log line.   *)
Wrong_ExceptionOnlyLogged(w)     == "brpop"
Wrong_ExceptionRetried(w)        == wpc[w]
Wrong_ExceptionTakenAsReject(w)  == IF wpc[w] = "rejected" THEN "brpop" ELSE "rejected"
Except(w) == IF wpc[w] = "failing" THEN "brpop" ELSE "failing"

(* The reply to a call of the worker that has taken effect. *)
WorkerReply(w, next) ==
    \/ Goto(w, next) /\ UNCHANGED faults
    \/ Goto(w, Except(w)) /\ Fault
-----------------------------------------------------------------------------
(* The upload endpoint. *)

(* Everything the endpoint checks before its first side effect: the        *)
(* account exists, the selection fits its sub-ledgers, and the password    *)
(* opens the file (opens says so, the password itself is not kept).        *)
Admissible(a, S, opens) ==
    /\ a \notin removed
    /\ IF SubLedgersOf(a) = {} THEN S = {} ELSE S # {} /\ S \subseteq SubLedgersOf(a)
    /\ opens

AdmitUpload(i, a, f, S, opens) ==
    /\ upc[i] = "idle"
    /\ IF Admissible(a, S, opens)
       THEN /\ upc' = [upc EXCEPT ![i] = "put_object"]
            /\ request' = [request EXCEPT ![i] = [account |-> a, file |-> f, selection |-> S]]
       ELSE /\ upc' = [upc EXCEPT ![i] = "rejected"]
            /\ UNCHANGED request
    /\ UNCHANGED <<accountVars, workerVars, bucket, status, detail, selected,
                   anchored, queue, txns, faults>>

(* The decrypted file is stored under statements/<import id>/<name>. *)
PutObject(i) ==
    /\ upc[i] = "put_object"
    /\ bucket' = bucket \cup {i}
    /\ UploadReply(i)
    /\ UNCHANGED <<accountVars, workerVars, request, status, detail, selected,
                   anchored, queue, txns>>

(* INSERT INTO statement_imports; the account may be gone by now. *)
CreateImport(i) ==
    /\ upc[i] = "create"
    /\ IF AccountOf(i) \in removed
       THEN upc' = [upc EXCEPT ![i] = "failed"] /\ UNCHANGED <<status, faults>>
       ELSE status' = [status EXCEPT ![i] = "pending"] /\ UploadReply(i)
    /\ UNCHANGED <<accountVars, workerVars, request, bucket, detail, selected,
                   anchored, queue, txns>>

(* add_import_sub_ledgers, one atomic executemany: nothing to do for an    *)
(* empty selection, a foreign-key error when a sub-ledger is gone.         *)
AddImportSubLedgers(i) ==
    /\ upc[i] = "select"
    /\ LET S == request[i].selection IN
       IF S \subseteq SubLedgersOf(AccountOf(i))
       THEN selected' = [selected EXCEPT ![i] = S] /\ UploadReply(i)
       ELSE upc' = [upc EXCEPT ![i] = "failed"] /\ UNCHANGED <<selected, faults>>
    /\ UNCHANGED <<accountVars, workerVars, request, bucket, status, detail,
                   anchored, queue, txns>>

(* LPUSH, then 201. *)
Enqueue(i) ==
    /\ upc[i] = "lpush"
    /\ queue' = Append(queue, i)
    /\ UploadReply(i)
    /\ UNCHANGED <<accountVars, workerVars, request, bucket, status, detail,
                   selected, anchored, txns>>

(* The current call fails without effect, or the API process stops. *)
UploadFails(i) ==
    /\ upc[i] \in Uploading
    /\ upc' = [upc EXCEPT ![i] = "failed"]
    /\ Fault
    /\ UNCHANGED <<accountVars, workerVars, request, bucket, status, detail,
                   selected, anchored, queue, txns>>

-----------------------------------------------------------------------------
(* The worker: BRPOP, then process_job. *)

Pop(w) ==
    /\ wpc[w] = "brpop"
    /\ queue # <<>>
    /\ queue' = Tail(queue)
    /\ job' = [job EXCEPT ![w] = Head(queue)]
    /\ wpc' = [wpc EXCEPT ![w] = "read"]
    /\ UNCHANGED <<accountVars, uploadVars, parsedAs, todo, openings, status,
                   detail, selected, anchored, txns, faults>>

(* get_import_for_processing: the provider is the account's current one.   *)
(* A row that is gone ends the job; a provider without parser fails it.    *)
ReadImport(w) ==
    /\ wpc[w] = "read"
    /\ LET p == provider[AccountOf(job[w])] IN
       IF status[job[w]] = "absent"
       THEN Release(w)
       ELSE /\ parsedAs' = [parsedAs EXCEPT ![w] = p]
            /\ wpc' = [wpc EXCEPT ![w] = IF p \in Parsers THEN "fetch" ELSE "no parser"]
            /\ UNCHANGED <<job, todo, openings>>
    /\ UNCHANGED <<accountVars, uploadVars, status, detail, selected, anchored,
                   queue, txns, faults>>

(* get_object raises when there is no such key. *)
FetchObject(w) ==
    /\ wpc[w] = "fetch"
    /\ Goto(w, IF job[w] \in bucket THEN "parse" ELSE Except(w))
    /\ UNCHANGED <<accountVars, uploadVars, status, detail, selected, anchored,
                   queue, txns, faults>>

(* parser(content): the rows, a StatementParseError, or another exception. *)
Parse(w) ==
    LET pf == <<parsedAs[w], FileOf(job[w])>> IN
    /\ wpc[w] = "parse"
    /\ IF ParseOutcome[pf] = "ok" /\ parsedAs[w] # MentorSacco
       THEN /\ todo' = [todo EXCEPT ![w] = {[ledger |-> None, rows |-> FlatRows[pf]]}]
            /\ wpc' = [wpc EXCEPT ![w] = "insert"]
            /\ UNCHANGED <<job, parsedAs, openings>>
       ELSE Goto(w, CASE ParseOutcome[pf] = "ok"       -> "selection"
                      [] ParseOutcome[pf] = "rejected" -> "rejected"
                      [] ParseOutcome[pf] = "error"    -> Except(w))
    /\ UNCHANGED <<accountVars, uploadVars, status, detail, selected, anchored,
                   queue, txns, faults>>

(* get_import_sub_ledgers *)
Wrong_EverySubLedger(w) == SubLedgersOf(AccountOf(job[w]))
ImportSubLedgers(w)     == selected[job[w]]

(* Every selected sub-ledger is matched by name with a section before      *)
(* anything is written.                                                    *)
ResolveSections(w) ==
    LET S == ImportSubLedgers(w)
        f == FileOf(job[w])
    IN
    /\ wpc[w] = "selection"
    /\ IF S # {} /\ \A l \in S : name[l] \in Headings[f]
       THEN /\ todo' = [todo EXCEPT ![w] =
                          {[ledger |-> l, rows |-> SectionRows[<<f, name[l]>>]] : l \in S}]
            /\ wpc' = [wpc EXCEPT ![w] = "insert"]
            /\ UNCHANGED <<job, parsedAs, openings>>
       ELSE Goto(w, "rejected")
    /\ UNCHANGED <<accountVars, uploadVars, status, detail, selected, anchored,
                   queue, txns, faults>>

(* The rows one INSERT ... ON CONFLICT (account_id, dedupe_hash) DO        *)
(* NOTHING adds for a batch of this import.                                *)
Wrong_EveryRow(i, batch) ==
    {[account |-> AccountOf(i), hash |-> h, import |-> i, ledger |-> batch.ledger] : h \in batch.rows}
Wrong_NoRowsOnConflict(i, batch) ==
    IF batch.rows \cap HashesOn(AccountOf(i)) = {} THEN Wrong_EveryRow(i, batch) ELSE {}
NewRows(i, batch) ==
    {[account |-> AccountOf(i), hash |-> h, import |-> i, ledger |-> batch.ledger] :
        h \in batch.rows \ HashesOn(AccountOf(i))}

(* The step after the last batch: the sub-ledgers' opening balances, if    *)
(* some batch had rows to derive one from, then the import's own row.      *)
AfterInserts(left, derived) ==
    CASE left # {}                    -> "insert"
      [] left = {} /\ derived # {}    -> "openings"
      [] left = {} /\ derived = {}    -> "parsed"

(* insert_transactions for one batch, in no particular order.  An empty    *)
(* batch makes no call; a removed account is a foreign-key error.          *)
InsertTransactions(w, batch) ==
    LET i == job[w]
        left == todo[w] \ {batch}
        derived == IF batch.ledger = None \/ batch.rows = {} THEN openings[w]
                   ELSE openings[w] \cup {batch.ledger}
    IN
    /\ wpc[w] = "insert"
    /\ batch \in todo[w]
    /\ IF batch.rows # {} /\ AccountOf(i) \in removed
       THEN Goto(w, Except(w)) /\ UNCHANGED <<txns, faults>>
       ELSE /\ txns' = txns \cup NewRows(i, batch)
            /\ \/ /\ wpc' = [wpc EXCEPT ![w] = AfterInserts(left, derived)]
                  /\ todo' = [todo EXCEPT ![w] = left]
                  /\ openings' = [openings EXCEPT ![w] = derived]
                  /\ UNCHANGED <<job, parsedAs, faults>>
               \/ batch.rows # {} /\ Goto(w, Except(w)) /\ Fault
    /\ UNCHANGED <<accountVars, uploadVars, status, detail, selected, anchored, queue>>

(* set_sub_ledger_opening_balances, one atomic executemany. *)
SetOpeningBalances(w) ==
    LET i == job[w] IN
    /\ wpc[w] = "openings"
    /\ anchored' = [anchored EXCEPT ![i] = @ \cup (openings[w] \cap selected[i])]
    /\ WorkerReply(w, "parsed")
    /\ UNCHANGED <<accountVars, uploadVars, status, detail, selected, queue, txns>>

(* mark_import_parsed: UPDATE ... WHERE id, no guard on the old status. *)
MarkParsed(w) ==
    LET i == job[w] IN
    /\ wpc[w] = "parsed"
    /\ status' = IF status[i] = "absent" THEN status ELSE [status EXCEPT ![i] = "parsed"]
    /\ WorkerReply(w, "brpop")
    /\ UNCHANGED <<accountVars, uploadVars, detail, selected, anchored, queue, txns>>

(* mark_import_failed, with the reason of the path that led here. *)
MarkFailed(w) ==
    LET i == job[w] IN
    /\ wpc[w] \in Marking
    /\ IF status[i] = "absent"
       THEN UNCHANGED <<status, detail>>
       ELSE /\ status' = [status EXCEPT ![i] = "failed"]
            /\ detail' = [detail EXCEPT ![i] = wpc[w]]
    /\ WorkerReply(w, "brpop")
    /\ UNCHANGED <<accountVars, uploadVars, selected, anchored, queue, txns>>

(* The current call fails without effect. *)
CallFails(w) ==
    /\ wpc[w] \in WorkerPc \ {"brpop", "parse"}
    /\ Goto(w, Except(w))
    /\ Fault
    /\ UNCHANGED <<accountVars, uploadVars, status, detail, selected, anchored,
                   queue, txns>>

(* The worker process stops and the container restarts: BRPOP has already  *)
(* removed the job from the list.                                          *)
Crash(w) ==
    /\ wpc[w] # "brpop"
    /\ Release(w)
    /\ Fault
    /\ UNCHANGED <<accountVars, uploadVars, status, detail, selected, anchored,
                   queue, txns>>

-----------------------------------------------------------------------------
(* What owners do to the account while an import is under way. *)

Edit == edits < MaxEdits /\ edits' = edits + 1

(* A sub-ledger's name is unique on its account. *)
NameFree(a, n) == \A l \in SubLedgersOf(a) : name[l] # n

UpdateProvider(a, p) ==
    /\ a \notin removed
    /\ p # provider[a]
    /\ provider' = [provider EXCEPT ![a] = p]
    /\ Edit
    /\ UNCHANGED <<removed, owner, name, uploadVars, workerVars, status, detail,
                   selected, anchored, queue, txns, faults>>

CreateSubLedger(a, l, n) ==
    /\ a \notin removed
    /\ owner[l] = None
    /\ NameFree(a, n)
    /\ owner' = [owner EXCEPT ![l] = a]
    /\ name' = [name EXCEPT ![l] = n]
    /\ Edit
    /\ UNCHANGED <<provider, removed, uploadVars, workerVars, status, detail,
                   selected, anchored, queue, txns, faults>>

RenameSubLedger(l, n) ==
    /\ owner[l] \in Accounts
    /\ NameFree(owner[l], n)
    /\ name' = [name EXCEPT ![l] = n]
    /\ Edit
    /\ UNCHANGED <<provider, removed, owner, uploadVars, workerVars, status,
                   detail, selected, anchored, queue, txns, faults>>

(* DELETE FROM sub_ledgers: refused by the foreign keys (a 500) while an   *)
(* import or a transaction refers to it.                                   *)
DeleteSubLedger(l) ==
    /\ owner[l] \in Accounts
    /\ \A i \in Imports : l \notin selected[i]
    /\ \A t \in txns : t.ledger # l
    /\ owner' = [owner EXCEPT ![l] = "deleted"]
    /\ Edit
    /\ UNCHANGED <<provider, removed, name, uploadVars, workerVars, status,
                   detail, selected, anchored, queue, txns, faults>>

(* No endpoint deletes an account, but the worker expects that it may      *)
(* happen: its imports, sub-ledgers and transactions go with it.           *)
RemoveAccount(a) ==
    LET gone == {i \in Imports : request[i] # None /\ AccountOf(i) = a} IN
    /\ a \notin removed
    /\ removed' = removed \cup {a}
    /\ owner' = [l \in SubLedgers |-> IF owner[l] = a THEN "deleted" ELSE owner[l]]
    /\ status' = [i \in Imports |-> IF i \in gone THEN "absent" ELSE status[i]]
    /\ detail' = [i \in Imports |-> IF i \in gone THEN "none" ELSE detail[i]]
    /\ selected' = [i \in Imports |-> IF i \in gone THEN {} ELSE selected[i]]
    /\ anchored' = [i \in Imports |-> IF i \in gone THEN {} ELSE anchored[i]]
    /\ txns' = {t \in txns : t.account # a}
    /\ Edit
    /\ UNCHANGED <<provider, name, uploadVars, workerVars, queue, faults>>

-----------------------------------------------------------------------------
UploadStep(i) == PutObject(i) \/ CreateImport(i) \/ AddImportSubLedgers(i) \/ Enqueue(i)

WorkerStep(w) ==
    \/ Pop(w) \/ ReadImport(w) \/ FetchObject(w) \/ Parse(w) \/ ResolveSections(w)
    \/ \E batch \in todo[w] : InsertTransactions(w, batch)
    \/ SetOpeningBalances(w) \/ MarkParsed(w) \/ MarkFailed(w)

EditStep ==
    \/ \E a \in Accounts : RemoveAccount(a) \/ \E p \in Providers : UpdateProvider(a, p)
    \/ \E l \in SubLedgers :
          \/ DeleteSubLedger(l)
          \/ \E n \in Names : RenameSubLedger(l, n) \/ \E a \in Accounts : CreateSubLedger(a, l, n)

Next ==
    \/ \E i \in Imports :
          \/ UploadStep(i) \/ UploadFails(i)
          \/ \E a \in Accounts, f \in Files, S \in SUBSET SubLedgers, opens \in BOOLEAN :
                AdmitUpload(i, a, f, S, opens)
    \/ \E w \in Workers : WorkerStep(w) \/ CallFails(w) \/ Crash(w)
    \/ EditStep

Spec == Init /\ [][Next]_vars

(* The event loop serves each admitted request, the worker's loop never    *)
(* stops popping (docker restarts it), and a call either returns or fails. *)
Fairness ==
    /\ \A i \in Imports : WF_vars(UploadStep(i))
    /\ \A w \in Workers : WF_vars(WorkerStep(w))

FairSpec == Spec /\ Fairness
-----------------------------------------------------------------------------
(* Properties. *)

(* What the worker finds when it picks a job up: the file, the row and the *)
(* very selection the uploader made are durable before the id is queued    *)
(* ("Persisted before enqueueing"), and stay so until the job ends.        *)
EnqueuedIsDurable ==
    \A i \in Queued \cup {job[w] : w \in {v \in Workers : wpc[v] # "brpop"}} :
        \/ AccountOf(i) \in removed
        \/ i \in bucket /\ status[i] # "absent" /\ selected[i] = request[i].selection

(* An import reported as parsed brought everything its file holds for it:  *)
(* all the rows a flat parser finds, or, for every sub-ledger selected,    *)
(* the rows of a section, with the opening balance that anchors it.  Rows  *)
(* an earlier import had already posted count; none is missing.            *)
ParsedIsComplete ==
    \A i \in {j \in Imports : status[j] = "parsed"} :
        LET f == FileOf(i)
            onAccount == HashesOn(AccountOf(i))
        IN  \/ \E p \in PARSERS :
                  ParseOutcome[<<p, f>>] = "ok" /\ FlatRows[<<p, f>>] \subseteq onAccount
            \/ /\ ParseOutcome[<<MentorSacco, f>>] = "ok"
               /\ selected[i] # {}
               /\ \A l \in selected[i] : \E n \in Headings[f] :
                     /\ SectionRows[<<f, n>>] \subseteq onAccount
                     /\ SectionRows[<<f, n>>] # {} => l \in anchored[i]

(* A rejection for a stated reason (StatementParseError, ImportWriteError, *)
(* no parser) is raised "instead of a partial/wrong write": no row of the  *)
(* import is on any account.                                               *)
RejectedWroteNothing ==
    \A i \in Imports :
        status[i] = "failed" /\ detail[i] \in {"rejected", "no parser"} => RowsOf(i) = {}

(* A row is filed where its uploader meant it: on the account of the       *)
(* upload, and, when it has a sub-ledger, under one that was selected and  *)
(* still belongs to that account.                                          *)
RowsFiledAsSelected ==
    \A t \in txns :
        /\ t.account = AccountOf(t.import)
        /\ t.ledger # None => t.ledger \in selected[t.import] \cap SubLedgersOf(t.account)

(* Every accepted import is eventually reported as parsed or failed (or    *)
(* goes with its account), unless some call or process fails.              *)
AcceptedSettles ==
    \A i \in Imports :
        (upc[i] = "accepted" /\ status[i] = "pending") ~>
            (status[i] # "pending" \/ faults > 0)

(* Whatever fails, the work runs out once the uploads are over: no job     *)
(* stays in the queue, and none keeps a worker from the ones behind it.    *)
QueueDrains == <>[](Queued = {} /\ \A w \in Workers : wpc[w] = "brpop")

-----------------------------------------------------------------------------
(* The pipeline implements ImportLifecycle. *)

StateOf(i) ==
    IF status[i] = "failed" /\ detail[i] \in {"rejected", "no parser"}
    THEN "rejected" ELSE status[i]

Lifecycle == INSTANCE ImportLifecycle WITH
    state <- [i \in Imports |-> StateOf(i)],
    book  <- {[account |-> t.account, hash |-> t.hash, import |-> t.import] : t \in txns}

(* Each import moves through the life ImportLifecycle describes, and posts *)
(* rows only as it allows, whatever workers, uploads, owners and faults do. *)
ImplementsLifecycle == Lifecycle!Spec
=============================================================================
