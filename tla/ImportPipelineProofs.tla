------------------------ MODULE ImportPipelineProofs ------------------------
(***************************************************************************)
(* The pipeline for every set of imports, workers, accounts and files: its *)
(* invariants; that it implements ImportLifecycle, and that what it files  *)
(* is filed and complete, by what relates an import's status to where its  *)
(* upload and its worker stand, and its rows to what the worker has left.  *)
(***************************************************************************)
EXTENDS ImportPipeline, TLAPS

(* A request past admission has its account, file and selection. *)
Admitted ==
    \A i \in Imports : upc[i] \notin {"idle", "rejected"} => request[i] \in Request

(* An id is in the list or in a worker's hands only after its LPUSH. *)
Released(i)   == upc[i] \in {"accepted", "failed"}
QueueReleased == \A k \in 1..Len(queue) : Released(queue[k])
JobsReleased  == \A w \in Workers : job[w] # None => Released(job[w])

(* get_import_for_processing's provider has a parser once it is used. *)
ParserChosen ==
    \A w \in Workers : wpc[w] \in {"fetch", "parse"} => parsedAs[w] \in Parsers

TypeInv == TypeOK /\ Admitted /\ QueueReleased /\ JobsReleased /\ ParserChosen

-----------------------------------------------------------------------------
(* The list as a sequence. *)

LEMMA AppendFacts ==
  ASSUME NEW S, NEW s \in Seq(S), NEW e \in S
  PROVE  /\ Append(s, e) \in Seq(S)
         /\ Len(Append(s, e)) = Len(s) + 1
         /\ Len(s) \in Nat
         /\ \A k \in 1..Len(s) : Append(s, e)[k] = s[k]
         /\ Append(s, e)[Len(s) + 1] = e
  OBVIOUS

LEMMA TailFacts ==
  ASSUME NEW S, NEW s \in Seq(S), s # <<>>
  PROVE  /\ Tail(s) \in Seq(S)
         /\ Len(s) \in Nat \ {0}
         /\ Len(Tail(s)) = Len(s) - 1
         /\ \A k \in 1..(Len(s) - 1) : Tail(s)[k] = s[k + 1]
         /\ Head(s) = s[1]
         /\ Head(s) \in S
  OBVIOUS

-----------------------------------------------------------------------------
(* Type correctness. *)

LEMMA InitTypeInv == Init => TypeInv
  BY ConstantsAssumption, SMTT(30)
  DEF Init, Released, TypeInv, TypeOK, Admitted, QueueReleased, JobsReleased, ParserChosen,
      UploadPc, WorkerPc, Marking, Uploading

(* The phase of an upload after a call that took effect. *)
LEMMA UploadReplyFacts ==
  ASSUME TypeOK, NEW i \in Imports, upc[i] \in Uploading, UploadReply(i)
  PROVE  /\ \E p \in {After[upc[i]], "failed"} : upc' = [upc EXCEPT ![i] = p]
         /\ upc' \in [Imports -> UploadPc]
         /\ faults' \in 0..MaxFaults
<1>1. upc \in [Imports -> UploadPc]  BY DEF TypeOK
<1>2. After[upc[i]] \in UploadPc  BY DEF After, UploadPc, Uploading
<1>3. faults' \in 0..MaxFaults
  BY ConstantsAssumption DEF TypeOK, UploadReply, Fault
<1>4. \E p \in {After[upc[i]], "failed"} : upc' = [upc EXCEPT ![i] = p]
  BY DEF UploadReply
<1>5. ASSUME NEW p \in {After[upc[i]], "failed"}, upc' = [upc EXCEPT ![i] = p]
      PROVE  upc' \in [Imports -> UploadPc]
  <2>1. p \in UploadPc  BY <1>2 DEF UploadPc
  <2> QED  BY <1>1, <1>5, <2>1
<1> QED  BY <1>3, <1>4, <1>5

(* The worker's variables after Goto: they change for this worker only,    *)
(* which keeps its job unless it returns.                                  *)
WorkerTypes ==
    /\ wpc \in [Workers -> WorkerPc]
    /\ job \in [Workers -> Imports \cup {None}]
    /\ parsedAs \in [Workers -> Providers \cup {None}]
    /\ todo \in [Workers -> SUBSET Batch]
    /\ openings \in [Workers -> SUBSET SubLedgers]
    /\ \A w \in Workers : wpc[w] = "brpop" <=> job[w] = None

Moves(w, next) ==
    /\ wpc' = [wpc EXCEPT ![w] = next]
    /\ job' = [job EXCEPT ![w] = IF next = "brpop" THEN None ELSE job[w]]
    /\ parsedAs' = [parsedAs EXCEPT ![w] = IF next = "brpop" THEN None ELSE parsedAs[w]]

LEMMA GotoFacts ==
  ASSUME WorkerTypes, NEW w \in Workers, wpc[w] # "brpop",
         NEW next \in WorkerPc, Goto(w, next)
  PROVE  WorkerTypes' /\ Moves(w, next)
<1>1. CASE next = "brpop"
  <2>1. Release(w)  BY <1>1 DEF Goto
  <2>2. WorkerTypes'  BY <1>1, <2>1 DEF WorkerTypes, Release
  <2>3. Moves(w, next)  BY <1>1, <2>1 DEF Moves, Release
  <2> QED  BY <2>2, <2>3
<1>2. CASE next # "brpop"
  <2>1. wpc' = [wpc EXCEPT ![w] = next] /\ UNCHANGED <<job, parsedAs, todo, openings>>
    BY <1>2 DEF Goto
  <2>2. WorkerTypes'  BY <1>2, <2>1 DEF WorkerTypes
  <2>3. Moves(w, next)  BY <1>2, <2>1 DEF Moves, WorkerTypes
  <2> QED  BY <2>2, <2>3
<1> QED  BY <1>1, <1>2

LEMMA ExceptFacts ==
  ASSUME NEW w \in Workers
  PROVE  Except(w) \in WorkerPc /\ Except(w) \in {"brpop", "failing"}
  BY DEF Except, WorkerPc, Marking

LEMMA WorkerReplyFacts ==
  ASSUME WorkerTypes, NEW w \in Workers, wpc[w] # "brpop",
         NEW next \in WorkerPc, WorkerReply(w, next), faults \in 0..MaxFaults
  PROVE  /\ WorkerTypes'
         /\ \E n \in {next, "brpop", "failing"} : Moves(w, n)
         /\ faults' \in 0..MaxFaults
<1>1. CASE Goto(w, next) /\ UNCHANGED faults
  BY <1>1, GotoFacts
<1>2. CASE Goto(w, Except(w)) /\ Fault
  BY <1>2, GotoFacts, ExceptFacts, ConstantsAssumption DEF Fault
<1> QED  BY <1>1, <1>2 DEF WorkerReply
(* A step of one upload leaves the ids that are past their LPUSH there. *)
LEMMA UploadFrame ==
  ASSUME TypeInv, NEW i \in Imports, upc[i] \in Uploading,
         NEW p \in Uploading \cup {"accepted", "failed"},
         upc' = [upc EXCEPT ![i] = p], request' = request, UNCHANGED workerVars
  PROVE  /\ Admitted' /\ JobsReleased' /\ ParserChosen'
         /\ queue' = queue => QueueReleased'
<1>1. /\ upc \in [Imports -> UploadPc] /\ queue \in Seq(Imports)
      /\ job \in [Workers -> Imports \cup {None}]
  BY DEF TypeInv, TypeOK
<1>2. \A j \in Imports : Released(j) => Released(j)'
  BY <1>1 DEF Released, Uploading
<1>3. Admitted'
  BY <1>1 DEF TypeInv, Admitted, Uploading
<1>4. JobsReleased'
  BY <1>1, <1>2 DEF TypeInv, JobsReleased, workerVars
<1>5. ASSUME queue' = queue PROVE QueueReleased'
  <2>1. \A k \in 1..Len(queue) : queue[k] \in Imports  BY <1>1
  <2> QED  BY <1>2, <1>5, <2>1 DEF TypeInv, QueueReleased
<1>6. ParserChosen'
  BY DEF TypeInv, ParserChosen, workerVars
<1> QED  BY <1>3, <1>4, <1>5, <1>6

LEMMA UploadTypeInv ==
  ASSUME TypeInv, NEW i \in Imports, UploadStep(i) \/ UploadFails(i)
  PROVE  TypeInv'
<1> DEFINE Phase == Uploading \cup {"accepted", "failed"}
<1>1. TypeOK /\ upc \in [Imports -> UploadPc] /\ queue \in Seq(Imports)
  BY DEF TypeInv, TypeOK
<1>2. ASSUME upc[i] \in Uploading, UploadReply(i)
      PROVE  /\ \E p \in Phase : upc' = [upc EXCEPT ![i] = p]
             /\ upc' \in [Imports -> UploadPc] /\ faults' \in 0..MaxFaults
  BY <1>1, <1>2, UploadReplyFacts DEF After, Uploading
<1>3. ASSUME upc' = [upc EXCEPT ![i] = "failed"]
      PROVE  /\ \E p \in Phase : upc' = [upc EXCEPT ![i] = p]
             /\ upc' \in [Imports -> UploadPc]
  <2>1. "failed" \in UploadPc /\ "failed" \in Phase  BY DEF UploadPc
  <2> QED  BY <1>1, <1>3, <2>1
<1>4. ASSUME /\ \E p \in Phase : upc' = [upc EXCEPT ![i] = p]
             /\ upc[i] \in Uploading /\ UNCHANGED <<request, workerVars>>
      PROVE  /\ Admitted' /\ JobsReleased' /\ ParserChosen'
             /\ queue' = queue => QueueReleased'
  BY <1>4, UploadFrame
<1>5. upc[i] \in Uploading /\ UNCHANGED <<request, workerVars>>
  BY DEF UploadStep, UploadFails, Uploading, PutObject, CreateImport,
         AddImportSubLedgers, Enqueue
<1> HIDE DEF Phase
<1>6. CASE PutObject(i)
  <2>1. UploadReply(i) /\ bucket' \subseteq Imports /\ queue' = queue
    BY <1>1, <1>6 DEF PutObject, TypeOK
  <2>2. TypeOK'
    BY <1>1, <1>2, <1>5, <1>6, <2>1 DEF PutObject, TypeOK, accountVars, workerVars
  <2> QED  BY <1>2, <1>4, <1>5, <2>1, <2>2 DEF TypeInv
<1>7. CASE CreateImport(i)
  <2>1. queue' = queue /\ status' \in [Imports -> {"absent", "pending", "parsed", "failed"}]
    BY <1>1, <1>7 DEF CreateImport, TypeOK
  <2>2. /\ \E p \in Phase : upc' = [upc EXCEPT ![i] = p]
        /\ upc' \in [Imports -> UploadPc] /\ faults' \in 0..MaxFaults
    BY <1>1, <1>2, <1>3, <1>5, <1>7 DEF CreateImport, TypeOK
  <2>3. TypeOK'
    BY <1>1, <1>7, <2>1, <2>2 DEF CreateImport, TypeOK, accountVars, workerVars
  <2> QED  BY <1>4, <1>5, <2>1, <2>2, <2>3 DEF TypeInv
<1>8. CASE AddImportSubLedgers(i)
  <2>1. request[i].selection \in SUBSET SubLedgers
    BY <1>5 DEF TypeInv, Admitted, Request, Uploading
  <2>2. queue' = queue /\ selected' \in [Imports -> SUBSET SubLedgers]
    BY <1>1, <1>8, <2>1 DEF AddImportSubLedgers, TypeOK
  <2>3. /\ \E p \in Phase : upc' = [upc EXCEPT ![i] = p]
        /\ upc' \in [Imports -> UploadPc] /\ faults' \in 0..MaxFaults
    BY <1>1, <1>2, <1>3, <1>5, <1>8 DEF AddImportSubLedgers, TypeOK
  <2>4. TypeOK'
    BY <1>1, <1>8, <2>2, <2>3 DEF AddImportSubLedgers, TypeOK, accountVars, workerVars
  <2> QED  BY <1>4, <1>5, <2>2, <2>3, <2>4 DEF TypeInv
<1>9. CASE Enqueue(i)
  <2>1. /\ queue' = Append(queue, i)
        /\ queue' \in Seq(Imports)
        /\ Len(queue') = Len(queue) + 1
        /\ Len(queue) \in Nat
        /\ \A k \in 1..Len(queue) : queue'[k] = queue[k] /\ queue[k] \in Imports
        /\ queue'[Len(queue) + 1] = i
    BY <1>1, <1>9, AppendFacts DEF Enqueue
  <2>2. /\ \E p \in Phase : upc' = [upc EXCEPT ![i] = p]
        /\ upc' \in [Imports -> UploadPc] /\ faults' \in 0..MaxFaults
    BY <1>2, <1>5, <1>9 DEF Enqueue
  <2>3. /\ Released(i)'
        /\ \A j \in Imports : Released(j) => Released(j)'
    BY <1>1, <1>9 DEF Enqueue, UploadReply, After, Released
  <2>4. QueueReleased'
    <3> SUFFICES ASSUME NEW k \in 1..Len(queue') PROVE upc'[queue'[k]] \in {"accepted", "failed"}
      BY DEF QueueReleased, Released
    <3>1. CASE k = Len(queue) + 1  BY <3>1, <2>1, <2>3 DEF Released
    <3>2. CASE k \in 1..Len(queue)
      <4>1. queue[k] \in Imports /\ Released(queue[k])
        BY <3>2, <2>1 DEF TypeInv, QueueReleased
      <4> QED  BY <4>1, <3>2, <2>1, <2>3 DEF Released
    <3> QED  BY <3>1, <3>2, <2>1
  <2>5. TypeOK'
    BY <1>1, <1>9, <2>1, <2>2 DEF Enqueue, TypeOK, accountVars, workerVars
  <2> QED  BY <1>4, <1>5, <2>2, <2>4, <2>5 DEF TypeInv
<1>10. CASE UploadFails(i)
  <2>1. queue' = queue /\ faults' \in 0..MaxFaults
    BY <1>1, <1>10, ConstantsAssumption DEF UploadFails, Fault, TypeOK
  <2>2. TypeOK'
    BY <1>1, <1>3, <1>10, <2>1 DEF UploadFails, TypeOK, accountVars, workerVars
  <2> QED  BY <1>3, <1>4, <1>5, <1>10, <2>1, <2>2 DEF UploadFails, TypeInv
<1> QED  BY <1>6, <1>7, <1>8, <1>9, <1>10 DEF UploadStep

LEMMA AdmitTypeInv ==
  ASSUME TypeInv, NEW i \in Imports, NEW a \in Accounts, NEW f \in Files,
         NEW S \in SUBSET SubLedgers, NEW opens \in BOOLEAN, AdmitUpload(i, a, f, S, opens)
  PROVE  TypeInv'
<1>1. PICK p \in {"put_object", "rejected"} :
         /\ upc' = [upc EXCEPT ![i] = p]
         /\ IF p = "rejected" THEN request' = request
            ELSE request' = [request EXCEPT ![i] = [account |-> a, file |-> f, selection |-> S]]
  BY DEF AdmitUpload
<1>2. upc[i] = "idle" /\ UNCHANGED <<workerVars, queue>>  BY DEF AdmitUpload
<1>3. [account |-> a, file |-> f, selection |-> S] \in Request  BY DEF Request
<1>4. p \in UploadPc  BY DEF UploadPc, Uploading
<1>5. upc' \in [Imports -> UploadPc] /\ request' \in [Imports -> Request \cup {None}]
  BY <1>1, <1>3, <1>4 DEF TypeInv, TypeOK
<1>6. TypeOK'
  BY <1>5 DEF AdmitUpload, TypeInv, TypeOK, accountVars, workerVars
<1>7. \A j \in Imports : Released(j) => Released(j)'
  BY <1>1, <1>2 DEF TypeInv, TypeOK, Released
<1>8. Admitted'
  BY <1>1, <1>2, <1>3 DEF TypeInv, TypeOK, Admitted
<1>9. QueueReleased'
  <2>1. \A k \in 1..Len(queue) : queue[k] \in Imports  BY DEF TypeInv, TypeOK
  <2> QED  BY <1>2, <1>7, <2>1 DEF TypeInv, QueueReleased
<1>10. JobsReleased' /\ ParserChosen'
  BY <1>2, <1>7 DEF TypeInv, TypeOK, JobsReleased, ParserChosen, workerVars
<1> QED  BY <1>6, <1>8, <1>9, <1>10 DEF TypeInv
(* A step of one worker that pops nothing. *)
LEMMA WorkerFrame ==
  ASSUME TypeInv, UNCHANGED uploadVars, queue' = queue,
         \A v \in Workers : job'[v] \in {job[v], None},
         \A v \in Workers : wpc'[v] \in {"fetch", "parse"} => parsedAs'[v] \in Parsers
  PROVE  Admitted' /\ QueueReleased' /\ JobsReleased' /\ ParserChosen'
<1>1. Admitted'  BY DEF TypeInv, Admitted, uploadVars
<1>2. QueueReleased'  BY DEF TypeInv, QueueReleased, Released, uploadVars
<1>3. JobsReleased'  BY DEF TypeInv, JobsReleased, Released, uploadVars
<1>4. ParserChosen'  BY DEF ParserChosen
<1> QED  BY <1>1, <1>2, <1>3, <1>4

LEMMA MovesFrame ==
  ASSUME TypeInv, NEW w \in Workers, NEW n \in WorkerPc, Moves(w, n),
         n = "fetch" => FALSE,
         n = "parse" => wpc[w] = "fetch"
  PROVE  /\ \A v \in Workers : job'[v] \in {job[v], None}
         /\ \A v \in Workers : wpc'[v] \in {"fetch", "parse"} => parsedAs'[v] \in Parsers
<1>1. /\ wpc \in [Workers -> WorkerPc] /\ job \in [Workers -> Imports \cup {None}]
      /\ parsedAs \in [Workers -> Providers \cup {None}]
  BY DEF TypeInv, TypeOK
<1>2. \A v \in Workers : job'[v] \in {job[v], None}
  BY <1>1 DEF Moves
<1>3. ASSUME NEW v \in Workers, wpc'[v] \in {"fetch", "parse"}
      PROVE  parsedAs'[v] \in Parsers
  BY <1>1, <1>3 DEF Moves, TypeInv, ParserChosen
<1> QED  BY <1>2, <1>3

(* What a busy worker works on. *)
LEMMA JobFacts ==
  ASSUME TypeInv, NEW w \in Workers, wpc[w] # "brpop"
  PROVE  /\ job[w] \in Imports
         /\ Released(job[w])
         /\ AccountOf(job[w]) \in Accounts
         /\ FileOf(job[w]) \in Files
<1>1. job[w] \in Imports  BY DEF TypeInv, TypeOK
<1>2. Released(job[w])
  BY <1>1, ConstantsAssumption DEF TypeInv, JobsReleased
<1>3. request[job[w]] \in Request
  BY <1>1, <1>2 DEF TypeInv, Admitted, Released
<1> QED  BY <1>1, <1>2, <1>3 DEF Request, AccountOf, FileOf

LEMMA PopTypeInv ==
  ASSUME TypeInv, NEW w \in Workers, Pop(w)
  PROVE  TypeInv'
<1>1. TypeOK /\ queue \in Seq(Imports) /\ queue # <<>> /\ queue' = Tail(queue)
  BY DEF TypeInv, TypeOK, Pop
<1>2. /\ queue' \in Seq(Imports) /\ Len(queue) \in Nat \ {0}
      /\ Len(queue') = Len(queue) - 1
      /\ \A k \in 1..(Len(queue) - 1) : queue'[k] = queue[k + 1]
      /\ Head(queue) = queue[1] /\ Head(queue) \in Imports
  BY <1>1, TailFacts
<1>3. "read" \in WorkerPc  BY DEF WorkerPc
<1>4. WorkerTypes'
  BY <1>1, <1>2, <1>3, ConstantsAssumption DEF Pop, TypeOK, WorkerTypes
<1>5. TypeOK'
  BY <1>1, <1>2, <1>4 DEF Pop, TypeOK, WorkerTypes, accountVars, uploadVars
<1>6. Admitted'  BY DEF Pop, TypeInv, Admitted, uploadVars
<1>7. QueueReleased'
  BY <1>2 DEF Pop, TypeInv, QueueReleased, Released, uploadVars
<1>8. Released(Head(queue))
  BY <1>2 DEF TypeInv, QueueReleased
<1>9. JobsReleased'
  BY <1>1, <1>8 DEF Pop, TypeInv, TypeOK, JobsReleased, Released, uploadVars
<1>10. ParserChosen'
  BY <1>1 DEF Pop, TypeInv, TypeOK, ParserChosen
<1> QED  BY <1>5, <1>6, <1>7, <1>9, <1>10 DEF TypeInv

(* The steps of a worker that leave the tables alone. *)
LEMMA ReadingTypeInv ==
  ASSUME TypeInv, NEW w \in Workers,
         ReadImport(w) \/ FetchObject(w) \/ Parse(w) \/ ResolveSections(w)
         \/ CallFails(w) \/ Crash(w)
  PROVE  TypeInv'
<1> DEFINE Good ==
      /\ WorkerTypes'
      /\ \A v \in Workers : job'[v] \in {job[v], None}
      /\ \A v \in Workers : wpc'[v] \in {"fetch", "parse"} => parsedAs'[v] \in Parsers
<1>1. TypeOK /\ WorkerTypes /\ wpc[w] # "brpop"
  BY DEF TypeInv, TypeOK, WorkerTypes, ReadImport, FetchObject, Parse, ResolveSections,
         CallFails, Crash
<1>2. ASSUME NEW n \in WorkerPc \ {"fetch"}, Goto(w, n), n = "parse" => wpc[w] = "fetch"
      PROVE  Good
  <2>1. WorkerTypes' /\ Moves(w, n)  BY <1>1, <1>2, GotoFacts
  <2> QED  BY <1>2, <2>1, MovesFrame
<1>3. ASSUME Release(w) PROVE Good
  <2>1. Goto(w, "brpop") /\ "brpop" \in WorkerPc  BY <1>3 DEF Goto, WorkerPc
  <2> QED  BY <1>2, <2>1
<1>4. ASSUME NEW B \in SUBSET Batch,
             todo' = [todo EXCEPT ![w] = B], wpc' = [wpc EXCEPT ![w] = "insert"],
             UNCHANGED <<job, parsedAs, openings>>
      PROVE  Good
  <2>1. "insert" \in WorkerPc  BY DEF WorkerPc
  <2>2. WorkerTypes'  BY <1>1, <1>4, <2>1 DEF WorkerTypes
  <2>3. \A v \in Workers : wpc'[v] \in {"fetch", "parse"} => parsedAs'[v] \in Parsers
    BY <1>1, <1>4 DEF TypeInv, ParserChosen, WorkerTypes
  <2> QED  BY <1>4, <2>2, <2>3
<1> HIDE DEF Good
<1>5. ASSUME ReadImport(w) PROVE Good
  <2>1. CASE status[job[w]] = "absent"  BY <1>3, <1>5, <2>1 DEF ReadImport
  <2>2. CASE status[job[w]] # "absent"
    <3> DEFINE p == provider[AccountOf(job[w])]
               n == IF p \in Parsers THEN "fetch" ELSE "no parser"
    <3>1. p \in Providers  BY <1>1, JobFacts DEF TypeOK
    <3>2. n \in WorkerPc  BY DEF WorkerPc, Marking
    <3>3. /\ parsedAs' = [parsedAs EXCEPT ![w] = p] /\ wpc' = [wpc EXCEPT ![w] = n]
          /\ UNCHANGED <<job, todo, openings>>
      BY <1>5, <2>2 DEF ReadImport
    <3>4. n # "brpop" /\ (n \in {"fetch", "parse"} => p \in Parsers)  OBVIOUS
    <3> HIDE DEF p, n
    <3>5. WorkerTypes'  BY <1>1, <3>1, <3>2, <3>3, <3>4 DEF WorkerTypes
    <3>6. \A v \in Workers : wpc'[v] \in {"fetch", "parse"} => parsedAs'[v] \in Parsers
      BY <1>1, <3>3, <3>4 DEF TypeInv, ParserChosen, WorkerTypes
    <3> QED  BY <3>3, <3>5, <3>6 DEF Good
  <2> QED  BY <2>1, <2>2
<1>6. ASSUME FetchObject(w) PROVE Good
  <2>1. "parse" \in WorkerPc \ {"fetch"} /\ Except(w) \in WorkerPc \ {"fetch", "parse"}
    BY ExceptFacts DEF WorkerPc
  <2> QED  BY <1>2, <1>6, <2>1 DEF FetchObject
<1>7. ASSUME Parse(w) PROVE Good
  <2> DEFINE pf == <<parsedAs[w], FileOf(job[w])>>
  <2>1. pf \in Parsers \X Files
    BY <1>1, <1>7, JobFacts DEF Parse, TypeInv, ParserChosen
  <2>2. ParseOutcome[pf] \in {"ok", "rejected", "error"}
    BY <2>1, ConstantsAssumption
  <2>3. CASE ParseOutcome[pf] = "ok" /\ parsedAs[w] # MentorSacco
    <3>1. pf \in PARSERS \X Files  BY <2>1, <2>3 DEF Parsers
    <3>2. {[ledger |-> None, rows |-> FlatRows[pf]]} \in SUBSET Batch
      BY <3>1, ConstantsAssumption DEF Batch
    <3> QED  BY <1>4, <1>7, <2>3, <3>2 DEF Parse
  <2>4. CASE ~(ParseOutcome[pf] = "ok" /\ parsedAs[w] # MentorSacco)
    <3>1. {"selection", "rejected"} \subseteq WorkerPc \ {"fetch", "parse"}
          /\ Except(w) \in WorkerPc \ {"fetch", "parse"}
      BY ExceptFacts DEF WorkerPc, Marking
    <3>2. \E n \in WorkerPc \ {"fetch", "parse"} : Goto(w, n)
      BY <1>7, <2>2, <2>4, <3>1 DEF Parse
    <3> QED  BY <1>2, <3>2
  <2> QED  BY <2>3, <2>4
<1>8. ASSUME ResolveSections(w) PROVE Good
  <2> DEFINE S == selected[job[w]]
             f == FileOf(job[w])
             B == {[ledger |-> l, rows |-> SectionRows[<<f, name[l]>>]] : l \in S}
  <2>1. CASE S # {} /\ \A l \in S : name[l] \in Headings[f]
    <3>1. S \subseteq SubLedgers /\ f \in Files  BY <1>1, JobFacts DEF TypeOK
    <3>2. ASSUME NEW l \in S PROVE [ledger |-> l, rows |-> SectionRows[<<f, name[l]>>]] \in Batch
      <4>1. <<f, name[l]>> \in Files \X Names  BY <1>1, <3>1 DEF TypeOK
      <4> QED  BY <3>1, <4>1, ConstantsAssumption DEF Batch
    <3>3. B \in SUBSET Batch  BY <3>2
    <3>4. todo' = [todo EXCEPT ![w] = B] /\ wpc' = [wpc EXCEPT ![w] = "insert"]
          /\ UNCHANGED <<job, parsedAs, openings>>
      BY <1>8, <2>1 DEF ResolveSections, ImportSubLedgers
    <3> HIDE DEF B
    <3> QED  BY <1>4, <3>3, <3>4
  <2>2. CASE ~(S # {} /\ \A l \in S : name[l] \in Headings[f])
    <3>1. "rejected" \in WorkerPc \ {"fetch", "parse"}  BY DEF WorkerPc, Marking
    <3>2. Goto(w, "rejected")  BY <1>8, <2>2 DEF ResolveSections, ImportSubLedgers
    <3> QED  BY <1>2, <3>1, <3>2
  <2> QED  BY <2>1, <2>2
<1>9. ASSUME CallFails(w) PROVE Good
  <2>1. Except(w) \in WorkerPc \ {"fetch", "parse"}  BY ExceptFacts
  <2> QED  BY <1>2, <1>9, <2>1 DEF CallFails
<1>10. ASSUME Crash(w) PROVE Good  BY <1>3, <1>10 DEF Crash
<1>11. Good
  BY <1>5, <1>6, <1>7, <1>8, <1>9, <1>10
<1>12. /\ UNCHANGED <<accountVars, uploadVars, status, detail, selected, anchored, queue, txns>>
       /\ faults' \in 0..MaxFaults
  <2>1. UNCHANGED faults \/ Fault
    BY DEF ReadImport, FetchObject, Parse, ResolveSections, CallFails, Crash
  <2>2. faults' \in 0..MaxFaults  BY <1>1, <2>1, ConstantsAssumption DEF TypeOK, Fault
  <2> QED  BY <2>2 DEF ReadImport, FetchObject, Parse, ResolveSections, CallFails, Crash
<1>13. TypeOK'
  BY <1>1, <1>11, <1>12 DEF Good, TypeOK, WorkerTypes, accountVars, uploadVars
<1> QED  BY <1>11, <1>12, <1>13, WorkerFrame DEF Good, TypeInv
LEMMA InsertTypeInv ==
  ASSUME TypeInv, NEW w \in Workers, NEW batch \in todo[w], InsertTransactions(w, batch)
  PROVE  TypeInv'
<1> DEFINE i == job[w]
           left == todo[w] \ {batch}
           derived == IF batch.ledger = None \/ batch.rows = {} THEN openings[w]
                      ELSE openings[w] \cup {batch.ledger}
           Good == /\ WorkerTypes'
                   /\ \A v \in Workers : job'[v] \in {job[v], None}
                   /\ \A v \in Workers : wpc'[v] \in {"fetch", "parse"} => parsedAs'[v] \in Parsers
<1>1. TypeOK /\ WorkerTypes /\ wpc[w] = "insert" /\ batch \in Batch
  BY DEF TypeInv, TypeOK, WorkerTypes, InsertTransactions
<1>2. i \in Imports /\ AccountOf(i) \in Accounts
  BY <1>1, JobFacts
<1>3. NewRows(i, batch) \subseteq Transaction
  BY <1>1, <1>2 DEF NewRows, Batch, Transaction
<1>4. derived \in SUBSET SubLedgers /\ left \in SUBSET Batch
  BY <1>1 DEF TypeOK, Batch
<1>5. AfterInserts(left, derived) \in {"insert", "openings", "parsed"}
  BY DEF AfterInserts
<1>6. ASSUME Goto(w, Except(w)) PROVE Good
  <2>1. WorkerTypes' /\ Moves(w, Except(w))
    BY <1>1, <1>6, GotoFacts, ExceptFacts
  <2> QED  BY <2>1, MovesFrame, ExceptFacts
<1>7. ASSUME wpc' = [wpc EXCEPT ![w] = AfterInserts(left, derived)],
             todo' = [todo EXCEPT ![w] = left], openings' = [openings EXCEPT ![w] = derived],
             UNCHANGED <<job, parsedAs>>
      PROVE  Good
  <2>1. /\ AfterInserts(left, derived) \in {"insert", "openings", "parsed"}
        /\ AfterInserts(left, derived) \in WorkerPc
    BY <1>5 DEF WorkerPc
  <2> HIDE DEF left, derived
  <2>2. WorkerTypes'  BY <1>1, <1>4, <1>7, <2>1 DEF WorkerTypes
  <2>3. \A v \in Workers : wpc'[v] \in {"fetch", "parse"} => parsedAs'[v] \in Parsers
    BY <1>1, <1>7, <2>1 DEF TypeInv, ParserChosen, WorkerTypes
  <2> QED  BY <1>7, <2>2, <2>3
<1>8. /\ UNCHANGED faults \/ Fault
      /\ UNCHANGED txns \/ txns' = txns \cup NewRows(i, batch)
      /\ \/ Goto(w, Except(w))
         \/ /\ wpc' = [wpc EXCEPT ![w] = AfterInserts(left, derived)]
            /\ todo' = [todo EXCEPT ![w] = left] /\ openings' = [openings EXCEPT ![w] = derived]
            /\ UNCHANGED <<job, parsedAs>>
      /\ UNCHANGED <<accountVars, uploadVars, status, detail, selected, anchored, queue>>
  BY DEF InsertTransactions
<1> HIDE DEF i, left, derived, Good
<1>9. Good  BY <1>6, <1>7, <1>8
<1>10. txns' \subseteq Transaction /\ faults' \in 0..MaxFaults
  BY <1>1, <1>3, <1>8, ConstantsAssumption DEF TypeOK, Fault
<1>11. TypeOK'
  BY <1>1, <1>8, <1>9, <1>10 DEF Good, TypeOK, WorkerTypes, accountVars, uploadVars
<1> QED  BY <1>8, <1>9, <1>11, WorkerFrame DEF Good, TypeInv

LEMMA MarkingTypeInv ==
  ASSUME TypeInv, NEW w \in Workers,
         SetOpeningBalances(w) \/ MarkParsed(w) \/ MarkFailed(w)
  PROVE  TypeInv'
<1> DEFINE i == job[w]
<1>1. TypeOK /\ WorkerTypes /\ wpc[w] \in WorkerPc \ {"brpop"}
  BY DEF TypeInv, TypeOK, WorkerTypes, SetOpeningBalances, MarkParsed, MarkFailed, Marking
<1>2. i \in Imports  BY <1>1, JobFacts
<1>3. \E n \in {"parsed", "brpop"} : WorkerReply(w, n)
  BY DEF SetOpeningBalances, MarkParsed, MarkFailed
<1>4. /\ WorkerTypes' /\ faults' \in 0..MaxFaults
      /\ \E n \in {"parsed", "brpop", "failing"} : Moves(w, n)
  <2>1. {"parsed", "brpop", "failing"} \subseteq WorkerPc  BY DEF WorkerPc, Marking
  <2> QED  BY <1>1, <1>3, <2>1, WorkerReplyFacts DEF TypeOK
<1>5. /\ \A v \in Workers : job'[v] \in {job[v], None}
      /\ \A v \in Workers : wpc'[v] \in {"fetch", "parse"} => parsedAs'[v] \in Parsers
  <2>1. {"parsed", "brpop", "failing"} \subseteq WorkerPc  BY DEF WorkerPc, Marking
  <2> QED  BY <1>4, <2>1, MovesFrame
<1>6. status' \in [Imports -> {"absent", "pending", "parsed", "failed"}]
  BY <1>1, <1>2 DEF SetOpeningBalances, MarkParsed, MarkFailed, TypeOK
<1>7. detail' \in [Imports -> Marking \cup {"none"}]
  BY <1>1, <1>2 DEF SetOpeningBalances, MarkParsed, MarkFailed, TypeOK
<1>8. anchored' \in [Imports -> SUBSET SubLedgers]
  <2>1. CASE SetOpeningBalances(w)
    <3>1. anchored[i] \cup (openings[w] \cap selected[i]) \in SUBSET SubLedgers
      BY <1>1, <1>2 DEF TypeOK
    <3> QED  BY <1>1, <2>1, <3>1 DEF SetOpeningBalances, TypeOK
  <2> QED  BY <1>1, <2>1 DEF MarkParsed, MarkFailed, TypeOK
<1>9. UNCHANGED <<accountVars, uploadVars, selected, queue, txns>>
  BY DEF SetOpeningBalances, MarkParsed, MarkFailed
<1>10. TypeOK'
  BY <1>1, <1>4, <1>6, <1>7, <1>8, <1>9 DEF TypeOK, WorkerTypes, accountVars, uploadVars
<1> QED  BY <1>5, <1>9, <1>10, WorkerFrame DEF TypeInv

LEMMA EditTypeInv ==
  ASSUME TypeInv, EditStep
  PROVE  TypeInv'
<1>1. TypeOK  BY DEF TypeInv
<1>2. /\ UNCHANGED <<uploadVars, workerVars, queue, faults>> /\ edits' \in 0..MaxEdits
  <2>1. Edit /\ UNCHANGED <<uploadVars, workerVars, queue, faults>>
    BY DEF EditStep, RemoveAccount, UpdateProvider, DeleteSubLedger, RenameSubLedger,
           CreateSubLedger
  <2> QED  BY <1>1, <2>1, ConstantsAssumption DEF Edit, TypeOK
<1>3. Admitted' /\ QueueReleased' /\ JobsReleased' /\ ParserChosen'
  <2>1. UNCHANGED <<wpc, job, parsedAs>>  BY <1>2 DEF workerVars
  <2>2. \A v \in Workers : wpc'[v] \in {"fetch", "parse"} => parsedAs'[v] \in Parsers
    BY <2>1 DEF TypeInv, ParserChosen
  <2>3. \A v \in Workers : job'[v] \in {job[v], None}  BY <2>1
  <2> QED  BY <1>2, <2>2, <2>3, WorkerFrame
<1>4. ASSUME NEW a \in Accounts, RemoveAccount(a) PROVE TypeOK'
  <2>1. /\ removed' \subseteq Accounts
        /\ owner' \in [SubLedgers -> Accounts \cup {None, "deleted"}]
        /\ status' \in [Imports -> {"absent", "pending", "parsed", "failed"}]
    BY <1>1, <1>4 DEF RemoveAccount, TypeOK
  <2>2. /\ detail' \in [Imports -> Marking \cup {"none"}]
        /\ selected' \in [Imports -> SUBSET SubLedgers]
        /\ anchored' \in [Imports -> SUBSET SubLedgers]
        /\ txns' \subseteq Transaction
    BY <1>1, <1>4 DEF RemoveAccount, TypeOK
  <2> QED
    BY <1>1, <1>2, <1>4, <2>1, <2>2 DEF RemoveAccount, TypeOK, uploadVars, workerVars
<1>5. ASSUME NEW a \in Accounts, NEW p \in Providers, UpdateProvider(a, p) PROVE TypeOK'
  BY <1>1, <1>2, <1>5 DEF UpdateProvider, TypeOK, uploadVars, workerVars
<1>6. ASSUME NEW l \in SubLedgers, DeleteSubLedger(l) PROVE TypeOK'
  BY <1>1, <1>2, <1>6 DEF DeleteSubLedger, TypeOK, uploadVars, workerVars
<1>7. ASSUME NEW l \in SubLedgers, NEW n \in Names, RenameSubLedger(l, n) PROVE TypeOK'
  BY <1>1, <1>2, <1>7 DEF RenameSubLedger, TypeOK, uploadVars, workerVars
<1>8. ASSUME NEW l \in SubLedgers, NEW n \in Names, NEW a \in Accounts, CreateSubLedger(a, l, n)
      PROVE  TypeOK'
  BY <1>1, <1>2, <1>8 DEF CreateSubLedger, TypeOK, uploadVars, workerVars
<1>9. TypeOK'  BY <1>4, <1>5, <1>6, <1>7, <1>8 DEF EditStep
<1> QED  BY <1>3, <1>9 DEF TypeInv

LEMMA NextTypeInv == TypeInv /\ [Next]_vars => TypeInv'
<1> SUFFICES ASSUME TypeInv, [Next]_vars PROVE TypeInv'
  OBVIOUS
<1>1. ASSUME NEW w \in Workers, WorkerStep(w) \/ CallFails(w) \/ Crash(w)
      PROVE  TypeInv'
  BY <1>1, PopTypeInv, ReadingTypeInv, InsertTypeInv, MarkingTypeInv DEF WorkerStep
<1>2. CASE UNCHANGED vars
  <2>1. UNCHANGED <<uploadVars, workerVars, queue>>  BY <1>2 DEF vars
  <2>2. Admitted' /\ QueueReleased' /\ JobsReleased' /\ ParserChosen'
    BY <2>1 DEF TypeInv, Admitted, QueueReleased, JobsReleased, ParserChosen, Released,
                uploadVars, workerVars
  <2>3. TypeOK'
    BY <1>2 DEF TypeInv, TypeOK, vars, accountVars, uploadVars, workerVars
  <2> QED  BY <2>2, <2>3 DEF TypeInv
<1> QED
  BY <1>1, <1>2, UploadTypeInv, AdmitTypeInv, EditTypeInv DEF Next

(* Every variable of the pipeline stays in its type, and a worker in BRPOP *)
(* holds no job: the state of app/worker.py and of the tables it writes.   *)
THEOREM TypeCorrect == Spec => []TypeOK
<1>1. Spec => []TypeInv
  BY InitTypeInv, NextTypeInv, PTL DEF Spec
<1>2. TypeInv => TypeOK  BY DEF TypeInv
<1> QED  BY <1>1, <1>2, PTL
-----------------------------------------------------------------------------
(* How one step of a worker moves it.  Once rows may have been written, a  *)
(* job never goes back to a phase that can reject it, and a job that met   *)
(* an exception ends with its next step.                                   *)

Late == {"insert", "openings", "parsed", "failing"}

JobStep(w, n) ==
    /\ wpc' = [wpc EXCEPT ![w] = n]
    /\ job' = [job EXCEPT ![w] = IF n = "brpop" THEN None ELSE job[w]]
    /\ wpc[w] \in Late => n \in Late \cup {"brpop"}
    /\ wpc[w] = "failing" => n = "brpop"

LEMMA GotoJobStep ==
  ASSUME TypeInv, NEW w \in Workers, NEW n, Goto(w, n),
         wpc[w] \in Late => n \in Late \cup {"brpop"},
         wpc[w] = "failing" => n = "brpop"
  PROVE  JobStep(w, n)
<1>1. job \in [Workers -> Imports \cup {None}]  BY DEF TypeInv, TypeOK
<1>2. CASE n = "brpop"
  <2>1. wpc' = [wpc EXCEPT ![w] = "brpop"] /\ job' = [job EXCEPT ![w] = None]
    BY <1>2 DEF Goto, Release
  <2> QED  BY <1>2, <2>1 DEF JobStep
<1>3. CASE n # "brpop"
  <2>1. wpc' = [wpc EXCEPT ![w] = n] /\ job' = job
    BY <1>3 DEF Goto
  <2>2. job' = [job EXCEPT ![w] = IF n = "brpop" THEN None ELSE job[w]]
    BY <1>1, <1>3, <2>1
  <2> QED  BY <2>1, <2>2 DEF JobStep
<1> QED  BY <1>2, <1>3

LEMMA ExceptJobStep ==
  ASSUME TypeInv, NEW w \in Workers, Goto(w, Except(w))
  PROVE  \E n : JobStep(w, n)
<1>1. /\ wpc[w] \in Late => Except(w) \in Late \cup {"brpop"}
      /\ wpc[w] = "failing" => Except(w) = "brpop"
  BY DEF Except, Late
<1>2. JobStep(w, Except(w))  BY <1>1, GotoJobStep
<1> QED  BY <1>2

LEMMA WorkerShape ==
  ASSUME TypeInv, NEW w \in Workers, WorkerStep(w) \/ CallFails(w) \/ Crash(w), ~Pop(w)
  PROVE  /\ wpc[w] # "brpop"
         /\ UNCHANGED <<accountVars, uploadVars, queue>>
         /\ \E n : JobStep(w, n)
<1>1. wpc[w] # "brpop" /\ UNCHANGED <<accountVars, uploadVars, queue>>
  BY DEF WorkerStep, ReadImport, FetchObject, Parse, ResolveSections, InsertTransactions,
         SetOpeningBalances, MarkParsed, MarkFailed, CallFails, Crash, Marking
<1>2. job \in [Workers -> Imports \cup {None}]  BY DEF TypeInv, TypeOK
<1>3. ASSUME Release(w) PROVE \E n : JobStep(w, n)
  <2>1. Goto(w, "brpop")  BY <1>3 DEF Goto
  <2>2. JobStep(w, "brpop")  BY <2>1, GotoJobStep
  <2> QED  BY <2>2
<1>4. ASSUME NEW n, n # "brpop", wpc' = [wpc EXCEPT ![w] = n], UNCHANGED job,
             wpc[w] # "failing", wpc[w] \in Late => n \in Late
      PROVE  \E m : JobStep(w, m)
  <2>1. job' = [job EXCEPT ![w] = IF n = "brpop" THEN None ELSE job[w]]
    BY <1>2, <1>4
  <2>2. JobStep(w, n)  BY <1>4, <2>1 DEF JobStep
  <2> QED  BY <2>2
<1>5. ASSUME NEW n, Goto(w, n), wpc[w] \notin Late PROVE \E m : JobStep(w, m)
  <2>1. JobStep(w, n)  BY <1>5, GotoJobStep DEF Late
  <2> QED  BY <2>1
<1>6. ASSUME ReadImport(w) PROVE \E n : JobStep(w, n)
  <2>1. CASE status[job[w]] = "absent"  BY <1>3, <1>6, <2>1 DEF ReadImport
  <2>2. CASE status[job[w]] # "absent"
    <3> DEFINE n == IF provider[AccountOf(job[w])] \in Parsers THEN "fetch" ELSE "no parser"
    <3>1. wpc' = [wpc EXCEPT ![w] = n] /\ UNCHANGED job /\ wpc[w] = "read"
      BY <1>6, <2>2 DEF ReadImport
    <3>2. n # "brpop"  OBVIOUS
    <3> HIDE DEF n
    <3> QED  BY <1>4, <3>1, <3>2 DEF Late
  <2> QED  BY <2>1, <2>2
<1>7. ASSUME FetchObject(w) PROVE \E n : JobStep(w, n)
  BY <1>5, <1>7 DEF FetchObject, Late
<1>8. ASSUME Parse(w) PROVE \E n : JobStep(w, n)
  <2> DEFINE pf == <<parsedAs[w], FileOf(job[w])>>
  <2>1. wpc[w] = "parse"  BY <1>8 DEF Parse
  <2>2. CASE ParseOutcome[pf] = "ok" /\ parsedAs[w] # MentorSacco
    <3>1. wpc' = [wpc EXCEPT ![w] = "insert"] /\ UNCHANGED job
      BY <1>8, <2>2 DEF Parse
    <3> QED  BY <1>4, <2>1, <3>1 DEF Late
  <2>3. CASE ~(ParseOutcome[pf] = "ok" /\ parsedAs[w] # MentorSacco)
    <3>1. \E n : Goto(w, n)  BY <1>8, <2>3 DEF Parse
    <3> QED  BY <1>5, <2>1, <3>1 DEF Late
  <2> QED  BY <2>2, <2>3
<1>9. ASSUME ResolveSections(w) PROVE \E n : JobStep(w, n)
  <2>1. /\ wpc[w] = "selection"
        /\ \/ wpc' = [wpc EXCEPT ![w] = "insert"] /\ UNCHANGED job
           \/ Goto(w, "rejected")
    BY <1>9 DEF ResolveSections
  <2> QED  BY <1>4, <1>5, <2>1 DEF Late
<1>10. ASSUME NEW batch \in todo[w], InsertTransactions(w, batch) PROVE \E n : JobStep(w, n)
  <2>1. /\ wpc[w] = "insert"
        /\ \/ Goto(w, Except(w))
           \/ \E left, derived :
                 wpc' = [wpc EXCEPT ![w] = AfterInserts(left, derived)] /\ UNCHANGED job
    BY <1>10 DEF InsertTransactions
  <2>2. CASE Goto(w, Except(w))  BY <2>2, ExceptJobStep
  <2>3. ASSUME NEW left, NEW derived,
               wpc' = [wpc EXCEPT ![w] = AfterInserts(left, derived)], UNCHANGED job
        PROVE  \E n : JobStep(w, n)
    <3>1. AfterInserts(left, derived) \in {"insert", "openings", "parsed"}
      BY DEF AfterInserts
    <3> QED  BY <1>4, <2>1, <2>3, <3>1 DEF Late
  <2> QED  BY <2>1, <2>2, <2>3
<1>11. ASSUME NEW n \in {"parsed", "brpop"}, WorkerReply(w, n), wpc[w] = "failing" => n = "brpop"
       PROVE  \E m : JobStep(w, m)
  <2>1. CASE Goto(w, n)
    <3>1. JobStep(w, n)  BY <1>11, <2>1, GotoJobStep DEF Late
    <3> QED  BY <3>1
  <2>2. CASE Goto(w, Except(w))  BY <2>2, ExceptJobStep
  <2> QED  BY <1>11, <2>1, <2>2 DEF WorkerReply
<1>12. ASSUME SetOpeningBalances(w) \/ MarkParsed(w) \/ MarkFailed(w)
       PROVE  \E n : JobStep(w, n)
  BY <1>11, <1>12 DEF SetOpeningBalances, MarkParsed, MarkFailed
<1>13. ASSUME CallFails(w) PROVE \E n : JobStep(w, n)
  BY <1>13, ExceptJobStep DEF CallFails
<1>14. ASSUME Crash(w) PROVE \E n : JobStep(w, n)
  BY <1>3, <1>14 DEF Crash
<1> QED
  BY <1>1, <1>6, <1>7, <1>8, <1>9, <1>10, <1>12, <1>13, <1>14 DEF WorkerStep
-----------------------------------------------------------------------------
(* An id is in the list at most once, never in the list and in a worker's  *)
(* hands, and never in the hands of two workers: one LPUSH, one BRPOP.     *)

Listed(i) == \E k \in 1..Len(queue) : queue[k] = i

OnceOnly ==
    /\ \A k, m \in 1..Len(queue) : k # m => queue[k] # queue[m]
    /\ \A w \in Workers : job[w] # None => ~Listed(job[w])
    /\ \A v, w \in Workers : v # w /\ job[v] # None => job[v] # job[w]

(* What one step does to the list and to the jobs. *)
Pushes(i) ==
    /\ ~Released(i)
    /\ queue' = Append(queue, i)
    /\ UNCHANGED <<job, wpc, status, detail, txns>>

LEMMA NextShape ==
  ASSUME TypeInv, [Next]_vars
  PROVE  \/ \E i \in Imports : Pushes(i)
         \/ \E w \in Workers : Pop(w)
         \/ queue' = queue /\ \A v \in Workers : job'[v] \in {job[v], None}
<1>1. ASSUME NEW i \in Imports, Enqueue(i) PROVE Pushes(i)
  BY <1>1 DEF Enqueue, Pushes, Released, workerVars
<1>2. ASSUME NEW i \in Imports,
             PutObject(i) \/ CreateImport(i) \/ AddImportSubLedgers(i) \/ UploadFails(i)
      PROVE  UNCHANGED <<queue, job>>
  BY <1>2 DEF PutObject, CreateImport, AddImportSubLedgers, UploadFails, workerVars
<1>3. ASSUME NEW i \in Imports, NEW a \in Accounts, NEW f \in Files,
             NEW S \in SUBSET SubLedgers, NEW opens \in BOOLEAN, AdmitUpload(i, a, f, S, opens)
      PROVE  UNCHANGED <<queue, job>>
  BY <1>3 DEF AdmitUpload, workerVars
<1>4. ASSUME NEW w \in Workers, WorkerStep(w) \/ CallFails(w) \/ Crash(w), ~Pop(w)
      PROVE  queue' = queue /\ \A v \in Workers : job'[v] \in {job[v], None}
  <2>1. job \in [Workers -> Imports \cup {None}]  BY DEF TypeInv, TypeOK
  <2>2. queue' = queue /\ \E n : JobStep(w, n)  BY <1>4, WorkerShape
  <2> QED  BY <2>1, <2>2 DEF JobStep
<1>5. ASSUME EditStep PROVE UNCHANGED <<queue, job>>
  BY <1>5 DEF EditStep, RemoveAccount, UpdateProvider, DeleteSubLedger, RenameSubLedger,
              CreateSubLedger, workerVars
<1>6. ASSUME UNCHANGED vars PROVE UNCHANGED <<queue, job>>
  BY <1>6 DEF vars, workerVars
<1> QED
  BY <1>1, <1>2, <1>3, <1>4, <1>5, <1>6 DEF Next, UploadStep, WorkerStep

LEMMA PopShape ==
  ASSUME TypeInv, NEW w \in Workers, Pop(w)
  PROVE  /\ Len(queue) \in Nat \ {0}
         /\ Len(queue') = Len(queue) - 1
         /\ \A k \in 1..Len(queue') : queue'[k] = queue[k + 1] /\ k + 1 \in 1..Len(queue)
         /\ queue[1] \in Imports
         /\ job' = [job EXCEPT ![w] = queue[1]]
<1>1. queue \in Seq(Imports) /\ queue # <<>> /\ queue' = Tail(queue)
  BY DEF TypeInv, TypeOK, Pop
<1>2. /\ Len(queue) \in Nat \ {0} /\ Len(Tail(queue)) = Len(queue) - 1
      /\ \A k \in 1..(Len(queue) - 1) : Tail(queue)[k] = queue[k + 1]
      /\ Head(queue) = queue[1] /\ Head(queue) \in Imports
  BY <1>1, TailFacts
<1> QED  BY <1>1, <1>2 DEF Pop

LEMMA OnceOnlyInductive ==
  ASSUME TypeInv, OnceOnly, [Next]_vars
  PROVE  OnceOnly'
<1>1. /\ queue \in Seq(Imports) /\ job \in [Workers -> Imports \cup {None}]
      /\ None \notin Imports
  BY ConstantsAssumption DEF TypeInv, TypeOK
<1>2. ASSUME NEW i \in Imports, Pushes(i) PROVE OnceOnly'
  <2>1. /\ Len(queue') = Len(queue) + 1 /\ Len(queue) \in Nat
        /\ \A k \in 1..Len(queue) : queue'[k] = queue[k]
        /\ queue'[Len(queue) + 1] = i
        /\ job' = job
    BY <1>1, <1>2, AppendFacts DEF Pushes
  <2>2. \A k \in 1..Len(queue) : queue[k] # i
    BY <1>2 DEF Pushes, TypeInv, QueueReleased
  <2>3. \A w \in Workers : job[w] # None => job[w] # i
    BY <1>2 DEF Pushes, TypeInv, JobsReleased
  <2>4. \A k \in 1..Len(queue') : k \in 1..Len(queue) \/ k = Len(queue) + 1
    BY <2>1
  <2> QED  BY <2>1, <2>2, <2>3, <2>4 DEF OnceOnly, Listed
<1>3. ASSUME NEW w \in Workers, Pop(w) PROVE OnceOnly'
  <2>1. /\ Len(queue) \in Nat \ {0} /\ Len(queue') = Len(queue) - 1
        /\ \A k \in 1..Len(queue') : queue'[k] = queue[k + 1] /\ k + 1 \in 1..Len(queue)
        /\ job' = [job EXCEPT ![w] = queue[1]] /\ queue[1] \in Imports
    BY <1>3, PopShape
  <2>2. \A k, m \in 1..Len(queue') : k # m => queue'[k] # queue'[m]
    BY <2>1 DEF OnceOnly
  <2>3. \A k \in 1..Len(queue') : queue'[k] # queue[1]
    <3>1. \A k \in 1..Len(queue') : k + 1 # 1  BY <2>1
    <3>2. 1 \in 1..Len(queue)  BY <2>1
    <3> QED  BY <2>1, <3>1, <3>2 DEF OnceOnly
  <2>4. \A v \in Workers : job[v] # None => job[v] # queue[1]
    <3>1. 1 \in 1..Len(queue)  BY <2>1
    <3> QED  BY <3>1 DEF OnceOnly, Listed
  <2>5. ASSUME NEW v \in Workers, job'[v] # None, NEW k \in 1..Len(queue')
        PROVE  queue'[k] # job'[v]
    BY <1>1, <2>1, <2>3, <2>5 DEF OnceOnly, Listed
  <2>6. ASSUME NEW u \in Workers, NEW v \in Workers, u # v, job'[u] # None
        PROVE  job'[u] # job'[v]
    <3>1. job[u] # None /\ job[v] # None => job[u] # job[v]  BY <2>6 DEF OnceOnly
    <3> QED  BY <1>1, <2>1, <2>4, <2>6, <3>1
  <2> QED  BY <2>2, <2>5, <2>6 DEF OnceOnly, Listed
<1>4. ASSUME queue' = queue, \A v \in Workers : job'[v] \in {job[v], None} PROVE OnceOnly'
  BY <1>4 DEF OnceOnly, Listed
<1> QED  BY <1>2, <1>3, <1>4, NextShape

-----------------------------------------------------------------------------
(* A rejected import has posted nothing.  Rows appear only from "insert"   *)
(* on, and from there no phase can reject the job any more; and a job that *)
(* was rejected while a worker still holds it can only fail once more.     *)

IsRejected(i) == status[i] = "failed" /\ detail[i] \in {"rejected", "no parser"}

PostedIsLate ==
    \A t \in txns :
        /\ Released(t.import) /\ ~Listed(t.import)
        /\ \A w \in Workers : job[w] = t.import => wpc[w] \in Late

RejectedIsOver ==
    \A i \in Imports : IsRejected(i) =>
        /\ Released(i) /\ ~Listed(i)
        /\ \A w \in Workers : job[w] = i => wpc[w] = "failing"

RejectInv == PostedIsLate /\ RejectedIsOver /\ RejectedWroteNothing

(* What one step of a worker does to the tables. *)
LEMMA WorkerWrites ==
  ASSUME TypeInv, NEW w \in Workers, WorkerStep(w) \/ CallFails(w) \/ Crash(w), ~Pop(w)
  PROVE  /\ \A t \in txns' : t \in txns \/ (t.import = job[w] /\ wpc[w] = "insert")
         /\ \A i \in Imports :
               \/ status'[i] = status[i] /\ detail'[i] = detail[i]
               \/ status'[i] = "parsed"
               \/ status'[i] = "failed" /\ detail'[i] = "failing"
               \/ /\ i = job[w] /\ wpc[w] \in Marking \ {"failing"}
                  /\ wpc'[w] \in {"brpop", "failing"}
<1>1. /\ status \in [Imports -> {"absent", "pending", "parsed", "failed"}]
      /\ detail \in [Imports -> Marking \cup {"none"}]
      /\ wpc \in [Workers -> WorkerPc]
  BY DEF TypeInv, TypeOK
<1>2. CASE UNCHANGED <<status, detail, txns>>  BY <1>2
<1>3. ASSUME NEW batch \in todo[w], InsertTransactions(w, batch)
      PROVE  /\ UNCHANGED <<status, detail>>
             /\ \A t \in txns' : t \in txns \/ (t.import = job[w] /\ wpc[w] = "insert")
  <2>1. UNCHANGED <<status, detail>> /\ wpc[w] = "insert"
        /\ (UNCHANGED txns \/ txns' = txns \cup NewRows(job[w], batch))
    BY <1>3 DEF InsertTransactions
  <2>2. \A t \in NewRows(job[w], batch) : t.import = job[w]  BY DEF NewRows
  <2> QED  BY <2>1, <2>2
<1>4. CASE MarkParsed(w)  BY <1>1, <1>4 DEF MarkParsed
<1>5. CASE MarkFailed(w)
  <2>1. /\ wpc[w] \in Marking /\ txns' = txns
        /\ \/ UNCHANGED <<status, detail>>
           \/ /\ status' = [status EXCEPT ![job[w]] = "failed"]
              /\ detail' = [detail EXCEPT ![job[w]] = wpc[w]]
        /\ WorkerReply(w, "brpop")
    BY <1>5 DEF MarkFailed
  <2>2. wpc'[w] \in {"brpop", "failing"}
    BY <1>1, <2>1 DEF WorkerReply, Goto, Release, Except
  <2> QED  BY <1>1, <2>1, <2>2
<1>6. CASE ReadImport(w) \/ FetchObject(w) \/ Parse(w) \/ ResolveSections(w)
           \/ SetOpeningBalances(w) \/ CallFails(w) \/ Crash(w)
  <2>1. UNCHANGED <<status, detail, txns>>
    BY <1>6 DEF ReadImport, FetchObject, Parse, ResolveSections, SetOpeningBalances,
                CallFails, Crash
  <2> QED  BY <2>1
<1> QED  BY <1>3, <1>4, <1>5, <1>6 DEF WorkerStep

LEMMA WorkerRejectInv ==
  ASSUME TypeInv, OnceOnly, RejectInv, NEW w \in Workers,
         WorkerStep(w) \/ CallFails(w) \/ Crash(w), ~Pop(w)
  PROVE  RejectInv'
<1>1. /\ wpc \in [Workers -> WorkerPc] /\ job \in [Workers -> Imports \cup {None}]
      /\ None \notin Imports /\ txns \subseteq Transaction
  BY ConstantsAssumption DEF TypeInv, TypeOK
<1>2. PICK n : JobStep(w, n)  BY WorkerShape
<1>3. wpc[w] # "brpop" /\ UNCHANGED <<upc, queue>>  BY WorkerShape DEF uploadVars
<1>4. job[w] \in Imports /\ Released(job[w]) /\ ~Listed(job[w])
  BY <1>1, <1>3, JobFacts DEF OnceOnly
<1>5. \A v \in Workers : job'[v] \in {job[v], None}  BY <1>1, <1>2 DEF JobStep
<1>6. \A v \in Workers : v # w => wpc'[v] = wpc[v]  BY <1>1, <1>2 DEF JobStep
<1>7. job'[w] # None => n # "brpop" /\ wpc'[w] = n  BY <1>1, <1>2 DEF JobStep
<1>8. \A i \in Imports : /\ Released(i) => Released(i)'
                         /\ ~Listed(i) => ~Listed(i)'
  BY <1>3 DEF Released, Listed
<1>9. \A t \in txns' : t \in txns \/ (t.import = job[w] /\ wpc[w] = "insert")
  BY WorkerWrites
<1>10. PostedIsLate'
  <2> SUFFICES ASSUME NEW t \in txns'
               PROVE  /\ Released(t.import)' /\ ~Listed(t.import)'
                      /\ \A v \in Workers : job'[v] = t.import => wpc'[v] \in Late
    BY DEF PostedIsLate
  <2>1. t.import \in Imports
    BY <1>1, <1>4, <1>9 DEF Transaction
  <2>2. Released(t.import) /\ ~Listed(t.import)
    BY <1>4, <1>9 DEF RejectInv, PostedIsLate
  <2>3. ASSUME NEW v \in Workers, job'[v] = t.import PROVE wpc'[v] \in Late
    <3>1. job[v] = t.import  BY <1>1, <1>5, <2>1, <2>3
    <3>2. wpc[v] \in Late
      <4>1. CASE t \in txns  BY <3>1, <4>1 DEF RejectInv, PostedIsLate
      <4>2. CASE t.import = job[w] /\ wpc[w] = "insert"
        <5>1. v = w  BY <1>1, <1>4, <3>1, <4>2 DEF OnceOnly
        <5> QED  BY <4>2, <5>1 DEF Late
      <4> QED  BY <1>9, <4>1, <4>2
    <3>3. v = w => n \in Late
      BY <1>1, <1>2, <1>7, <2>1, <2>3, <3>2 DEF JobStep
    <3> QED  BY <1>1, <1>6, <1>7, <2>1, <2>3, <3>2, <3>3
  <2> QED  BY <1>8, <2>1, <2>2, <2>3
<1>11. ASSUME NEW i \in Imports, IsRejected(i)'
       PROVE  /\ Released(i)' /\ ~Listed(i)'
              /\ \A v \in Workers : job'[v] = i => wpc'[v] = "failing"
              /\ \A t \in txns' : t.import # i
  <2>1. \/ IsRejected(i)
        \/ /\ i = job[w] /\ wpc[w] \in Marking \ {"failing"}
           /\ wpc'[w] \in {"brpop", "failing"}
    BY <1>11, WorkerWrites DEF IsRejected
  <2>2. CASE IsRejected(i)
    <3>1. /\ Released(i) /\ ~Listed(i)
          /\ \A v \in Workers : job[v] = i => wpc[v] = "failing"
      BY <2>2 DEF RejectInv, RejectedIsOver
    <3>2. ASSUME NEW v \in Workers, job'[v] = i PROVE wpc'[v] = "failing"
      <4>1. job[v] = i  BY <1>1, <1>5, <3>2
      <4>2. wpc[v] = "failing"  BY <3>1, <4>1
      <4>3. v # w  BY <1>1, <1>2, <1>7, <3>2, <4>2 DEF JobStep
      <4> QED  BY <1>6, <4>2, <4>3
    <3>3. \A t \in txns : t.import # i
      BY <2>2 DEF RejectInv, RejectedWroteNothing, IsRejected, RowsOf
    <3>4. job[w] = i => wpc[w] # "insert"  BY <3>1
    <3> QED  BY <1>8, <1>9, <3>1, <3>2, <3>3, <3>4
  <2>3. CASE /\ i = job[w] /\ wpc[w] \in Marking \ {"failing"}
             /\ wpc'[w] \in {"brpop", "failing"}
    <3>1. wpc[w] \notin Late  BY <2>3 DEF Marking, Late
    <3>2. \A t \in txns : t.import # i
      BY <2>3, <3>1 DEF RejectInv, PostedIsLate
    <3>3. ASSUME NEW v \in Workers, job'[v] = i PROVE wpc'[v] = "failing"
      <4>1. v = w  BY <1>1, <1>4, <1>5, <2>3, <3>3 DEF OnceOnly
      <4> QED  BY <1>1, <1>7, <2>3, <3>3, <4>1
    <3>4. wpc[w] # "insert"  BY <3>1 DEF Late
    <3> QED  BY <1>4, <1>8, <1>9, <2>3, <3>2, <3>3, <3>4
  <2> QED  BY <2>1, <2>2, <2>3
<1>12. RejectedIsOver'  BY <1>11 DEF RejectedIsOver
<1>13. RejectedWroteNothing'
  BY <1>11 DEF RejectedWroteNothing, IsRejected, RowsOf
<1> QED  BY <1>10, <1>12, <1>13 DEF RejectInv

(* A step that takes no job on and posts nothing, of an upload or an owner. *)
LEMMA QuietRejectInv ==
  ASSUME TypeInv, RejectInv, UNCHANGED <<job, wpc>>, txns' \subseteq txns,
         \A i \in Imports : Released(i) => Released(i)',
         \A i \in Imports : Released(i) /\ Listed(i)' => Listed(i),
         \A i \in Imports : IsRejected(i)' => IsRejected(i)
  PROVE  RejectInv'
<1>1. \A t \in txns : t.import \in Imports  BY DEF TypeInv, TypeOK, Transaction
<1>2. PostedIsLate'  BY <1>1 DEF RejectInv, PostedIsLate
<1>3. RejectedIsOver'  BY DEF RejectInv, RejectedIsOver
<1>4. RejectedWroteNothing'
  BY DEF RejectInv, RejectedWroteNothing, IsRejected, RowsOf
<1> QED  BY <1>2, <1>3, <1>4 DEF RejectInv

LEMMA UploadRejectInv ==
  ASSUME TypeInv, RejectInv, NEW i \in Imports, UploadStep(i) \/ UploadFails(i)
  PROVE  RejectInv'
<1>1. /\ upc \in [Imports -> UploadPc] /\ queue \in Seq(Imports)
      /\ status \in [Imports -> {"absent", "pending", "parsed", "failed"}]
  BY DEF TypeInv, TypeOK
<1>2. /\ upc[i] \in Uploading /\ UNCHANGED <<job, wpc, txns, detail>>
      /\ \E p : upc' = [upc EXCEPT ![i] = p]
      /\ UNCHANGED status \/ status' = [status EXCEPT ![i] = "pending"]
      /\ UNCHANGED queue \/ queue' = Append(queue, i)
  BY DEF UploadStep, UploadFails, Uploading, PutObject, CreateImport, AddImportSubLedgers,
         Enqueue, UploadReply, workerVars
<1>3. \A j \in Imports : Released(j) => Released(j)'
  BY <1>1, <1>2 DEF Released, Uploading
<1>4. \A j \in Imports : Released(j) /\ Listed(j)' => Listed(j)
  <2>1. ~Released(i)  BY <1>2 DEF Released, Uploading
  <2>2. CASE UNCHANGED queue  BY <2>2 DEF Listed
  <2>3. CASE queue' = Append(queue, i)
    <3>1. /\ Len(queue') = Len(queue) + 1 /\ Len(queue) \in Nat
          /\ \A k \in 1..Len(queue) : queue'[k] = queue[k]
          /\ queue'[Len(queue) + 1] = i
      BY <1>1, <2>3, AppendFacts
    <3>2. \A k \in 1..Len(queue') : k \in 1..Len(queue) \/ k = Len(queue) + 1
      BY <3>1
    <3> QED  BY <2>1, <3>1, <3>2 DEF Listed
  <2> QED  BY <1>2, <2>2, <2>3
<1>5. \A j \in Imports : IsRejected(j)' => IsRejected(j)
  BY <1>1, <1>2 DEF IsRejected
<1> QED  BY <1>2, <1>3, <1>4, <1>5, QuietRejectInv

LEMMA AdmitRejectInv ==
  ASSUME TypeInv, RejectInv, NEW i \in Imports, NEW a \in Accounts, NEW f \in Files,
         NEW S \in SUBSET SubLedgers, NEW opens \in BOOLEAN, AdmitUpload(i, a, f, S, opens)
  PROVE  RejectInv'
<1>1. upc \in [Imports -> UploadPc]  BY DEF TypeInv, TypeOK
<1>2. /\ upc[i] = "idle" /\ \E p : upc' = [upc EXCEPT ![i] = p]
      /\ UNCHANGED <<job, wpc, txns, status, detail, queue>>
  BY DEF AdmitUpload, workerVars
<1>3. \A j \in Imports : Released(j) => Released(j)'
  BY <1>1, <1>2 DEF Released
<1>4. \A j \in Imports : /\ IsRejected(j)' => IsRejected(j)
                         /\ Listed(j)' => Listed(j)
  BY <1>2 DEF IsRejected, Listed
<1> QED  BY <1>2, <1>3, <1>4, QuietRejectInv

LEMMA EditRejectInv ==
  ASSUME TypeInv, RejectInv, EditStep
  PROVE  RejectInv'
<1>1. /\ UNCHANGED <<uploadVars, workerVars, queue>>
      /\ txns' \subseteq txns
      /\ \/ UNCHANGED <<status, detail>>
         \/ \E I : status' = [i \in Imports |-> IF i \in I THEN "absent" ELSE status[i]]
                  /\ detail' = [i \in Imports |-> IF i \in I THEN "none" ELSE detail[i]]
  BY DEF EditStep, RemoveAccount, UpdateProvider, DeleteSubLedger, RenameSubLedger,
         CreateSubLedger
<1>2. \A j \in Imports : /\ IsRejected(j)' => IsRejected(j)
                         /\ Listed(j)' => Listed(j)
                         /\ Released(j) => Released(j)'
  BY <1>1 DEF IsRejected, Listed, Released, uploadVars
<1>3. UNCHANGED <<job, wpc>>  BY <1>1 DEF workerVars
<1> QED  BY <1>1, <1>2, <1>3, QuietRejectInv

LEMMA PopRejectInv ==
  ASSUME TypeInv, RejectInv, NEW w \in Workers, Pop(w)
  PROVE  RejectInv'
<1>1. /\ wpc \in [Workers -> WorkerPc] /\ job \in [Workers -> Imports \cup {None}]
      /\ txns \subseteq Transaction /\ None \notin Imports
  BY ConstantsAssumption DEF TypeInv, TypeOK
<1>2. UNCHANGED <<upc, txns, status, detail>> /\ wpc' = [wpc EXCEPT ![w] = "read"]
  BY DEF Pop, uploadVars
<1>3. /\ Len(queue) \in Nat \ {0} /\ Len(queue') = Len(queue) - 1
      /\ \A k \in 1..Len(queue') : queue'[k] = queue[k + 1] /\ k + 1 \in 1..Len(queue)
      /\ queue[1] \in Imports /\ job' = [job EXCEPT ![w] = queue[1]]
  BY PopShape
<1>4. Listed(queue[1])
  <2>1. 1 \in 1..Len(queue)  BY <1>3
  <2> QED  BY <2>1 DEF Listed
<1>5. \A i : ~Listed(i) => ~Listed(i)'  BY <1>3 DEF Listed
<1>6. PostedIsLate'
  <2> SUFFICES ASSUME NEW t \in txns
               PROVE  /\ Released(t.import)' /\ ~Listed(t.import)'
                      /\ \A v \in Workers : job'[v] = t.import => wpc'[v] \in Late
    BY <1>2 DEF PostedIsLate
  <2>1. /\ Released(t.import) /\ ~Listed(t.import)
        /\ \A v \in Workers : job[v] = t.import => wpc[v] \in Late
    BY DEF RejectInv, PostedIsLate
  <2>2. Released(t.import)' /\ ~Listed(t.import)'
    BY <1>2, <1>5, <2>1 DEF Released
  <2>3. t.import # queue[1]  BY <1>4, <2>1
  <2>4. \A v \in Workers : job'[v] = t.import => v # w /\ job[v] = t.import
    BY <1>1, <1>3, <2>3
  <2> QED  BY <1>1, <1>2, <2>1, <2>2, <2>4
<1>7. RejectedIsOver'
  <2> SUFFICES ASSUME NEW i \in Imports, IsRejected(i)
               PROVE  /\ Released(i)' /\ ~Listed(i)'
                      /\ \A v \in Workers : job'[v] = i => wpc'[v] = "failing"
    BY <1>2 DEF RejectedIsOver, IsRejected
  <2>1. /\ Released(i) /\ ~Listed(i)
        /\ \A v \in Workers : job[v] = i => wpc[v] = "failing"
    BY DEF RejectInv, RejectedIsOver
  <2>2. Released(i)' /\ ~Listed(i)'
    BY <1>2, <1>5, <2>1 DEF Released
  <2>3. i # queue[1]  BY <1>4, <2>1
  <2>4. \A v \in Workers : job'[v] = i => v # w /\ job[v] = i
    BY <1>1, <1>3, <2>3
  <2> QED  BY <1>1, <1>2, <2>1, <2>2, <2>4
<1>8. RejectedWroteNothing'
  BY <1>2 DEF RejectInv, RejectedWroteNothing, RowsOf
<1> QED  BY <1>6, <1>7, <1>8 DEF RejectInv

LEMMA NextRejectInv == TypeInv /\ OnceOnly /\ RejectInv /\ [Next]_vars => RejectInv'
<1> SUFFICES ASSUME TypeInv, OnceOnly, RejectInv, [Next]_vars PROVE RejectInv'
  OBVIOUS
<1>1. ASSUME NEW w \in Workers, WorkerStep(w) \/ CallFails(w) \/ Crash(w) PROVE RejectInv'
  <2>1. CASE Pop(w)  BY <2>1, PopRejectInv
  <2>2. CASE ~Pop(w)  BY <1>1, <2>2, WorkerRejectInv
  <2> QED  BY <2>1, <2>2
<1>2. CASE UNCHANGED vars
  <2>1. UNCHANGED <<job, wpc, txns, upc, queue, status, detail>>
    BY <1>2 DEF vars, uploadVars, workerVars
  <2>2. \A j \in Imports : /\ IsRejected(j)' => IsRejected(j)
                           /\ Listed(j)' => Listed(j)
                           /\ Released(j) => Released(j)'
    BY <2>1 DEF IsRejected, Listed, Released
  <2> QED  BY <2>1, <2>2, QuietRejectInv
<1> QED
  BY <1>1, <1>2, UploadRejectInv, AdmitRejectInv, EditRejectInv DEF Next

(* An import that app/worker.py failed with a StatementParseError, an      *)
(* ImportWriteError or a missing parser has no row on any account.         *)
THEOREM RejectsAreClean == Spec => []RejectedWroteNothing
<1>1. Init => OnceOnly /\ RejectInv
  <2>1. ASSUME Init PROVE OnceOnly
    BY <2>1 DEF Init, OnceOnly, Listed
  <2>2. ASSUME Init PROVE RejectInv
    BY <2>2 DEF Init, RejectInv, PostedIsLate, RejectedIsOver, RejectedWroteNothing, IsRejected,
                RowsOf
  <2> QED  BY <2>1, <2>2
<1>2. TypeInv /\ OnceOnly /\ [Next]_vars => OnceOnly'  BY OnceOnlyInductive
<1>3. Spec => [](TypeInv /\ OnceOnly /\ RejectInv)
  BY <1>1, <1>2, InitTypeInv, NextTypeInv, NextRejectInv, PTL DEF Spec
<1>4. RejectInv => RejectedWroteNothing  BY DEF RejectInv
<1> QED  BY <1>3, <1>4, PTL
-----------------------------------------------------------------------------
(* An id is queued with everything its job needs in place: each call of    *)
(* the upload adds its part, and the id is pushed after the last one.      *)

Gone(i) == AccountOf(i) \in removed
Durable(i) ==
    Gone(i) \/ (i \in bucket /\ status[i] # "absent" /\ selected[i] = request[i].selection)

Prepared(i) ==
    /\ upc[i] \in {"create", "select", "lpush"} => i \in bucket
    /\ upc[i] \in {"select", "lpush"} => Gone(i) \/ status[i] # "absent"
    /\ upc[i] = "lpush" => Gone(i) \/ selected[i] = request[i].selection

DurableInv ==
    /\ \A i \in Imports : Prepared(i)
    /\ \A i \in Imports : Listed(i) => Durable(i)
    /\ \A w \in Workers : job[w] # None => Durable(job[w])

(* A step that touches no request, and undoes nothing an import relies on. *)
LEMMA QuietDurableInv ==
  ASSUME TypeInv, DurableInv,
         \A i \in Imports : Prepared(i)' /\ (Durable(i) => Durable(i)'),
         \A i \in Imports : Listed(i)' => Listed(i),
         \A w \in Workers : job'[w] \in {job[w], None} \/ Listed(job'[w])
  PROVE  DurableInv'
<1>1. /\ job \in [Workers -> Imports \cup {None}]
      /\ \A k \in 1..Len(queue) : queue[k] \in Imports
  BY DEF TypeInv, TypeOK
<1>2. \A i \in Imports : Listed(i)' => Durable(i)'  BY DEF DurableInv
<1>3. ASSUME NEW w \in Workers, job'[w] # None PROVE Durable(job[w])'
  <2>1. CASE job'[w] = job[w]
    <3>1. job[w] \in Imports /\ Durable(job[w])  BY <1>1, <1>3, <2>1 DEF DurableInv
    <3>2. \A i \in Imports : Durable(i) => Durable(i)'  OBVIOUS
    <3> QED  BY <2>1, <3>1, <3>2 DEF Durable, Gone, AccountOf
  <2>2. CASE Listed(job'[w])
    <3>1. PICK i \in Imports : i = job'[w] /\ Durable(i)
      BY <1>1, <2>2 DEF Listed, DurableInv
    <3>2. Durable(i)'  BY <3>1
    <3> QED  BY <3>1, <3>2 DEF Durable, Gone, AccountOf
  <2> QED  BY <1>3, <2>1, <2>2
<1> QED  BY <1>2, <1>3 DEF DurableInv

LEMMA UploadDurableInv ==
  ASSUME TypeInv, DurableInv, NEW i \in Imports, UploadStep(i) \/ UploadFails(i)
  PROVE  DurableInv'
<1>1. /\ upc \in [Imports -> UploadPc] /\ queue \in Seq(Imports) /\ bucket \subseteq Imports
      /\ status \in [Imports -> {"absent", "pending", "parsed", "failed"}]
      /\ selected \in [Imports -> SUBSET SubLedgers]
      /\ job \in [Workers -> Imports \cup {None}]
  BY DEF TypeInv, TypeOK
<1>2. Prepared(i) /\ upc[i] \in Uploading
  BY DEF DurableInv, UploadStep, UploadFails, Uploading, PutObject, CreateImport,
         AddImportSubLedgers, Enqueue
<1>3. ~Released(i)  BY <1>2 DEF Released, Uploading
<1>4. ~Listed(i) /\ \A w \in Workers : job[w] # i
  BY <1>3, ConstantsAssumption DEF TypeInv, QueueReleased, JobsReleased, Listed
<1>5. /\ UNCHANGED <<request, removed, job>>
      /\ \E p \in {After[upc[i]], "failed"} : upc' = [upc EXCEPT ![i] = p]
      /\ \A j \in Imports \ {i} :
            (j \in bucket => j \in bucket') /\ status'[j] = status[j] /\ selected'[j] = selected[j]
  BY <1>1 DEF UploadStep, UploadFails, PutObject, CreateImport, AddImportSubLedgers, Enqueue,
              UploadReply, accountVars, workerVars
<1>6. Prepared(i)' /\ (Listed(i)' => Durable(i)')
  <2>1. CASE PutObject(i)
    <3>1. /\ i \in bucket' /\ UNCHANGED queue
          /\ upc'[i] \in {"create", "failed"}
      BY <1>1, <2>1 DEF PutObject, UploadReply, After
    <3> QED  BY <1>4, <3>1 DEF Prepared, Listed
  <2>2. CASE CreateImport(i)
    <3>1. /\ upc[i] = "create" /\ UNCHANGED <<queue, bucket>>
          /\ upc'[i] \in {"select", "failed"}
          /\ upc'[i] = "select" => status'[i] = "pending"
      BY <1>1, <2>2 DEF CreateImport, UploadReply, After
    <3>2. i \in bucket  BY <1>2, <3>1 DEF Prepared
    <3> QED  BY <1>4, <3>1, <3>2 DEF Prepared, Listed
  <2>3. CASE AddImportSubLedgers(i)
    <3>1. /\ upc[i] = "select" /\ UNCHANGED <<queue, bucket, status>>
          /\ upc'[i] \in {"lpush", "failed"}
          /\ upc'[i] = "lpush" => selected'[i] = request[i].selection
      BY <1>1, <2>3 DEF AddImportSubLedgers, UploadReply, After
    <3>2. i \in bucket /\ (Gone(i) \/ status[i] # "absent")  BY <1>2, <3>1 DEF Prepared
    <3> QED  BY <1>4, <1>5, <3>1, <3>2 DEF Prepared, Listed, Gone, AccountOf
  <2>4. CASE Enqueue(i)
    <3>1. /\ upc[i] = "lpush" /\ UNCHANGED <<bucket, status, selected>>
          /\ upc'[i] \in {"accepted", "failed"}
      BY <1>1, <2>4 DEF Enqueue, UploadReply, After
    <3>2. Durable(i)  BY <1>2, <3>1 DEF Prepared, Durable
    <3> QED  BY <1>5, <3>1, <3>2 DEF Prepared, Durable, Gone, AccountOf
  <2>5. CASE UploadFails(i)
    <3>1. upc'[i] = "failed" /\ UNCHANGED queue  BY <1>1, <2>5 DEF UploadFails
    <3> QED  BY <1>4, <3>1 DEF Prepared, Listed
  <2> QED  BY <2>1, <2>2, <2>3, <2>4, <2>5 DEF UploadStep
<1>7. ASSUME NEW j \in Imports, j # i
      PROVE  Prepared(j)' /\ (Durable(j) => Durable(j)') /\ (Listed(j)' => Listed(j))
  <2>1. upc'[j] = upc[j]  BY <1>1, <1>5, <1>7
  <2>2. Prepared(j)  BY DEF DurableInv
  <2>3. Prepared(j)' /\ (Durable(j) => Durable(j)')
    BY <1>5, <1>7, <2>1, <2>2 DEF Prepared, Durable, Gone, AccountOf
  <2>4. UNCHANGED queue \/ queue' = Append(queue, i)
    BY DEF UploadStep, UploadFails, PutObject, CreateImport, AddImportSubLedgers, Enqueue
  <2>5. CASE UNCHANGED queue  BY <2>3, <2>5 DEF Listed
  <2>6. CASE queue' = Append(queue, i)
    <3>1. /\ Len(queue') = Len(queue) + 1 /\ Len(queue) \in Nat
          /\ \A k \in 1..Len(queue) : queue'[k] = queue[k]
          /\ queue'[Len(queue) + 1] = i
      BY <1>1, <2>6, AppendFacts
    <3>2. \A k \in 1..Len(queue') : k \in 1..Len(queue) \/ k = Len(queue) + 1
      BY <3>1
    <3> QED  BY <1>7, <2>3, <3>1, <3>2 DEF Listed
  <2> QED  BY <2>4, <2>5, <2>6
<1>8. \A j \in Imports : Prepared(j)' /\ (Listed(j)' => Durable(j)')
  BY <1>6, <1>7 DEF DurableInv
<1>9. ASSUME NEW w \in Workers, job'[w] # None PROVE Durable(job[w])'
  <2>1. job' = job /\ job[w] \in Imports \ {i} /\ Durable(job[w])
    BY <1>1, <1>4, <1>5, <1>9 DEF DurableInv
  <2> QED  BY <1>5, <2>1 DEF Durable, Gone, AccountOf
<1> QED  BY <1>8, <1>9 DEF DurableInv

LEMMA AdmitDurableInv ==
  ASSUME TypeInv, DurableInv, NEW i \in Imports, NEW a \in Accounts, NEW f \in Files,
         NEW S \in SUBSET SubLedgers, NEW opens \in BOOLEAN, AdmitUpload(i, a, f, S, opens)
  PROVE  DurableInv'
<1>1. /\ upc \in [Imports -> UploadPc] /\ request \in [Imports -> Request \cup {None}]
      /\ job \in [Workers -> Imports \cup {None}]
  BY DEF TypeInv, TypeOK
<1>2. /\ upc[i] = "idle" /\ \E p \in {"put_object", "rejected"} : upc' = [upc EXCEPT ![i] = p]
      /\ \A j \in Imports \ {i} : request'[j] = request[j]
      /\ UNCHANGED <<removed, bucket, status, selected, queue, job>>
  BY <1>1 DEF AdmitUpload, accountVars, workerVars
<1>3. ~Listed(i) /\ \A w \in Workers : job[w] # i
  <2>1. ~Released(i)  BY <1>2 DEF Released
  <2> QED  BY <2>1, ConstantsAssumption DEF TypeInv, QueueReleased, JobsReleased, Listed
<1>4. Prepared(i)' /\ ~Listed(i)'
  BY <1>1, <1>2, <1>3 DEF Prepared, Listed
<1>5. ASSUME NEW j \in Imports, j # i
      PROVE  Prepared(j)' /\ (Durable(j) => Durable(j)') /\ (Listed(j)' => Listed(j))
  <2>1. upc'[j] = upc[j] /\ request'[j] = request[j] /\ Prepared(j)
    BY <1>1, <1>2, <1>5 DEF DurableInv
  <2> QED  BY <1>2, <2>1 DEF Prepared, Durable, Gone, AccountOf, Listed
<1>6. \A j \in Imports : Prepared(j)' /\ (Listed(j)' => Durable(j)')
  BY <1>4, <1>5 DEF DurableInv
<1>7. ASSUME NEW w \in Workers, job'[w] # None PROVE Durable(job[w])'
  <2>1. job' = job /\ job[w] \in Imports \ {i} /\ Durable(job[w])
    BY <1>1, <1>2, <1>3, <1>7 DEF DurableInv
  <2> QED  BY <1>2, <2>1 DEF Durable, Gone, AccountOf
<1> QED  BY <1>6, <1>7 DEF DurableInv

LEMMA WorkerDurableInv ==
  ASSUME TypeInv, DurableInv, NEW w \in Workers, WorkerStep(w) \/ CallFails(w) \/ Crash(w)
  PROVE  DurableInv'
<1>1. /\ job \in [Workers -> Imports \cup {None}] /\ removed' = removed
      /\ status \in [Imports -> {"absent", "pending", "parsed", "failed"}]
      /\ UNCHANGED <<uploadVars, selected>>
  BY DEF TypeInv, TypeOK, accountVars, WorkerStep, Pop, ReadImport, FetchObject, Parse,
         ResolveSections, InsertTransactions, SetOpeningBalances, MarkParsed, MarkFailed,
         CallFails, Crash
<1>2. UNCHANGED status \/ MarkParsed(w) \/ MarkFailed(w)
  BY DEF WorkerStep, Pop, ReadImport, FetchObject, Parse, ResolveSections,
         InsertTransactions, SetOpeningBalances, CallFails, Crash
<1>3. \A i \in Imports : status[i] # "absent" => status'[i] # "absent"
  BY <1>1, <1>2 DEF MarkParsed, MarkFailed
<1>4. \A i \in Imports : Prepared(i)' /\ (Durable(i) => Durable(i)')
  BY <1>1, <1>3 DEF DurableInv, Prepared, Durable, Gone, AccountOf, uploadVars
<1>5. /\ \A i \in Imports : Listed(i)' => Listed(i)
      /\ \A v \in Workers : job'[v] \in {job[v], None} \/ Listed(job'[v])
  <2>1. CASE Pop(w)
    <3>1. /\ Len(queue) \in Nat \ {0} /\ job' = [job EXCEPT ![w] = queue[1]]
          /\ \A k \in 1..Len(queue') : queue'[k] = queue[k + 1] /\ k + 1 \in 1..Len(queue)
      BY <2>1, PopShape
    <3>2. 1 \in 1..Len(queue)  BY <3>1
    <3> QED  BY <1>1, <3>1, <3>2 DEF Listed
  <2>2. CASE ~Pop(w)
    <3>1. UNCHANGED queue /\ \E n : JobStep(w, n)  BY <2>2, WorkerShape
    <3> QED  BY <1>1, <3>1 DEF JobStep, Listed
  <2> QED  BY <2>1, <2>2
<1> QED  BY <1>4, <1>5, QuietDurableInv

LEMMA EditDurableInv ==
  ASSUME TypeInv, DurableInv, EditStep
  PROVE  DurableInv'
<1>1. UNCHANGED <<uploadVars, job, queue>>
  BY DEF EditStep, RemoveAccount, UpdateProvider, DeleteSubLedger, RenameSubLedger,
         CreateSubLedger, workerVars
<1>2. \A i \in Imports : Prepared(i)' /\ (Durable(i) => Durable(i)')
  <2>1. CASE UNCHANGED <<removed, status, selected>>
    BY <1>1, <2>1 DEF DurableInv, Prepared, Durable, Gone, AccountOf, uploadVars
  <2>2. ASSUME NEW a \in Accounts, RemoveAccount(a), NEW i \in Imports
        PROVE  Prepared(i)' /\ (Durable(i) => Durable(i)')
    <3>1. Gone(i) => Gone(i)'
      BY <1>1, <2>2 DEF RemoveAccount, Gone, AccountOf, uploadVars
    <3>2. CASE request[i] # None /\ AccountOf(i) = a
      <4>1. Gone(i)'  BY <1>1, <2>2, <3>2 DEF RemoveAccount, Gone, AccountOf, uploadVars
      <4> QED  BY <1>1, <4>1 DEF DurableInv, Prepared, Durable, uploadVars
    <3>3. CASE ~(request[i] # None /\ AccountOf(i) = a)
      <4>1. status'[i] = status[i] /\ selected'[i] = selected[i]
        BY <2>2, <3>3 DEF RemoveAccount
      <4> QED  BY <1>1, <3>1, <4>1 DEF DurableInv, Prepared, Durable, uploadVars
    <3> QED  BY <3>2, <3>3
  <2> QED
    BY <2>1, <2>2 DEF EditStep, UpdateProvider, DeleteSubLedger, RenameSubLedger,
                      CreateSubLedger
<1> QED  BY <1>1, <1>2, QuietDurableInv DEF Listed

LEMMA NextDurableInv == TypeInv /\ DurableInv /\ [Next]_vars => DurableInv'
<1> SUFFICES ASSUME TypeInv, DurableInv, [Next]_vars PROVE DurableInv'
  OBVIOUS
<1>1. CASE UNCHANGED vars
  <2>1. UNCHANGED <<uploadVars, removed, status, selected, job, queue>>
    BY <1>1 DEF vars, accountVars, workerVars
  <2> QED  BY <2>1 DEF DurableInv, Prepared, Durable, Gone, AccountOf, Listed, uploadVars
<1> QED
  BY <1>1, UploadDurableInv, AdmitDurableInv, WorkerDurableInv, EditDurableInv DEF Next

(* Whatever is queued or in a worker's hands has its file in MinIO, its    *)
(* row and the uploader's selection, unless its account is gone.           *)
THEOREM EnqueuedAfterPersisted == Spec => []EnqueuedIsDurable
<1>1. Init => DurableInv
  BY DEF Init, DurableInv, Prepared, Listed
<1>2. Spec => [](TypeInv /\ DurableInv)
  BY <1>1, InitTypeInv, NextTypeInv, NextDurableInv, PTL DEF Spec
<1>3. TypeInv /\ DurableInv => EnqueuedIsDurable
  <2> SUFFICES ASSUME TypeInv, DurableInv,
                      NEW i \in Queued \cup {job[w] : w \in {v \in Workers : wpc[v] # "brpop"}}
               PROVE  Durable(i)
    BY DEF EnqueuedIsDurable, Durable, Gone
  <2>1. CASE i \in Queued
    <3>1. Listed(i) /\ i \in Imports  BY <2>1 DEF Queued, Listed, TypeInv, TypeOK
    <3> QED  BY <3>1 DEF DurableInv
  <2>2. CASE i \in {job[w] : w \in {v \in Workers : wpc[v] # "brpop"}}
    BY <2>2 DEF DurableInv, TypeInv, TypeOK
  <2> QED  BY <2>1, <2>2
<1> QED  BY <1>2, <1>3, PTL


-----------------------------------------------------------------------------
(* What each kind of step does, as far as these proofs need it. *)

(* An upload under way is nobody's job yet. *)
LEMMA Unreleased ==
  ASSUME TypeInv, NEW i \in Imports, ~Released(i)
  PROVE  /\ ~Listed(i)
         /\ \A w \in Workers : job[w] # i
  BY ConstantsAssumption DEF TypeInv, QueueReleased, JobsReleased, Listed

UploadTables(i) ==
    /\ upc[i] \in Uploading
    /\ \E p \in {After[upc[i]], "failed"} : upc' = [upc EXCEPT ![i] = p]
    /\ UNCHANGED <<request, workerVars, accountVars, detail, anchored, txns>>
    /\ \/ status' = status
       \/ /\ upc[i] = "create" /\ ~Gone(i)
          /\ status' = [status EXCEPT ![i] = "pending"]
    /\ \/ selected' = selected
       \/ /\ upc[i] = "select" /\ request[i].selection \subseteq SubLedgersOf(AccountOf(i))
          /\ selected' = [selected EXCEPT ![i] = request[i].selection]
    /\ queue' = queue \/ queue' = Append(queue, i)

LEMMA UploadShape ==
  ASSUME TypeInv, NEW i \in Imports, UploadStep(i) \/ UploadFails(i)
  PROVE  /\ UploadTables(i)
         /\ \A j \in Imports \ {i} : Listed(j)' => Listed(j)
<1>1. upc \in [Imports -> UploadPc] /\ queue \in Seq(Imports)
  BY DEF TypeInv, TypeOK
<1>2. ASSUME PutObject(i) PROVE UploadTables(i)
  BY <1>2 DEF PutObject, UploadReply, UploadTables, Uploading
<1>3. ASSUME CreateImport(i) PROVE UploadTables(i)
  BY <1>3 DEF CreateImport, UploadReply, UploadTables, Uploading, Gone
<1>4. ASSUME AddImportSubLedgers(i) PROVE UploadTables(i)
  BY <1>4 DEF AddImportSubLedgers, UploadReply, UploadTables, Uploading
<1>5. ASSUME Enqueue(i) PROVE UploadTables(i)
  BY <1>5 DEF Enqueue, UploadReply, UploadTables, Uploading
<1>6. ASSUME UploadFails(i) PROVE UploadTables(i)
  BY <1>6 DEF UploadFails, UploadTables
<1>7. UploadTables(i)
  BY <1>2, <1>3, <1>4, <1>5, <1>6 DEF UploadStep
<1>8. ASSUME NEW j \in Imports \ {i}, queue' = Append(queue, i), Listed(j)'
      PROVE  Listed(j)
  <2>1. /\ Len(queue') = Len(queue) + 1 /\ Len(queue) \in Nat
        /\ \A k \in 1..Len(queue) : queue'[k] = queue[k]
        /\ queue'[Len(queue) + 1] = i
    BY <1>1, <1>8, AppendFacts
  <2>2. \A k \in 1..Len(queue') : k \in 1..Len(queue) \/ k = Len(queue) + 1
    BY <2>1
  <2> QED  BY <1>8, <2>1, <2>2 DEF Listed
<1>9. ASSUME queue' = queue PROVE \A j \in Imports : Listed(j)' => Listed(j)
  BY <1>9 DEF Listed
<1> QED  BY <1>7, <1>8, <1>9 DEF UploadTables

(* A row that a worker adds, and what its batch said. *)
Adds(w, t) ==
    /\ wpc[w] = "insert" /\ ~Gone(job[w])
    /\ t.import = job[w] /\ t.account = AccountOf(job[w])
    /\ \E batch \in todo[w] : t.ledger = batch.ledger

WorkerTables(w) ==
    /\ wpc[w] # "brpop" /\ job[w] \in Imports
    /\ UNCHANGED <<accountVars, uploadVars, queue, selected>>
    /\ txns \subseteq txns' /\ \A t \in txns' : t \in txns \/ Adds(w, t)
    /\ \A i \in Imports :
          /\ status[i] = "absent" => status'[i] = "absent"
          /\ status'[i] = "absent" => status[i] = "absent"
          /\ i # job[w] => status'[i] = status[i] /\ detail'[i] = detail[i]
          /\ anchored[i] \subseteq anchored'[i]
    /\ status' # status => wpc'[w] \in {"brpop", "failing"}

LEMMA WorkerTablesHold ==
  ASSUME TypeInv, NEW w \in Workers, WorkerStep(w) \/ CallFails(w) \/ Crash(w), ~Pop(w)
  PROVE  WorkerTables(w)
<1>1. /\ status \in [Imports -> {"absent", "pending", "parsed", "failed"}]
      /\ detail \in [Imports -> Marking \cup {"none"}]
      /\ anchored \in [Imports -> SUBSET SubLedgers]
      /\ wpc \in [Workers -> WorkerPc]
  BY DEF TypeInv, TypeOK
<1>2. /\ wpc[w] # "brpop" /\ job[w] \in Imports
      /\ UNCHANGED <<accountVars, uploadVars, queue>>
  BY WorkerShape, JobFacts
<1>3. selected' = selected
  BY DEF WorkerStep, ReadImport, FetchObject, Parse, ResolveSections, InsertTransactions,
         SetOpeningBalances, MarkParsed, MarkFailed, CallFails, Crash
<1>4. CASE UNCHANGED <<status, detail, txns, anchored>>
  BY <1>2, <1>3, <1>4 DEF WorkerTables
<1>5. ASSUME NEW batch \in todo[w], InsertTransactions(w, batch)
      PROVE  WorkerTables(w)
  <2>1. /\ UNCHANGED <<status, detail, anchored>> /\ wpc[w] = "insert"
        /\ \/ txns' = txns
           \/ txns' = txns \cup NewRows(job[w], batch) /\ (batch.rows = {} \/ ~Gone(job[w]))
    BY <1>5 DEF InsertTransactions, Gone
  <2>2. \A t \in NewRows(job[w], batch) :
           /\ t.import = job[w] /\ t.account = AccountOf(job[w])
           /\ t.ledger = batch.ledger /\ batch.rows # {}
    BY DEF NewRows
  <2>3. txns \subseteq txns' /\ \A t \in txns' : t \in txns \/ Adds(w, t)
    BY <1>5, <2>1, <2>2 DEF Adds
  <2> QED  BY <1>2, <1>3, <2>1, <2>3 DEF WorkerTables
<1>6. wpc'[w] \in {"brpop", "failing"} \/ ~WorkerReply(w, "brpop")
  BY <1>1 DEF WorkerReply, Goto, Release, Except
<1>7. CASE MarkParsed(w)
  <2>1. UNCHANGED <<detail, txns, anchored>> /\ WorkerReply(w, "brpop")
        /\ status' = IF status[job[w]] = "absent" THEN status
                     ELSE [status EXCEPT ![job[w]] = "parsed"]
    BY <1>7 DEF MarkParsed
  <2> QED  BY <1>1, <1>2, <1>3, <1>6, <2>1 DEF WorkerTables
<1>8. CASE MarkFailed(w)
  <2>1. /\ UNCHANGED <<txns, anchored>> /\ WorkerReply(w, "brpop")
        /\ \/ UNCHANGED <<status, detail>>
           \/ /\ status[job[w]] # "absent"
              /\ status' = [status EXCEPT ![job[w]] = "failed"]
              /\ detail' = [detail EXCEPT ![job[w]] = wpc[w]]
    BY <1>8 DEF MarkFailed
  <2> QED  BY <1>1, <1>2, <1>3, <1>6, <2>1 DEF WorkerTables
<1>9. CASE SetOpeningBalances(w)
  <2>1. UNCHANGED <<status, detail, txns>>
        /\ anchored' = [anchored EXCEPT ![job[w]] = @ \cup (openings[w] \cap selected[job[w]])]
    BY <1>9 DEF SetOpeningBalances
  <2> QED  BY <1>1, <1>2, <1>3, <2>1 DEF WorkerTables
<1>10. CASE ReadImport(w) \/ FetchObject(w) \/ Parse(w) \/ ResolveSections(w)
            \/ CallFails(w) \/ Crash(w)
  BY <1>4, <1>10 DEF ReadImport, FetchObject, Parse, ResolveSections, CallFails, Crash
<1> QED  BY <1>5, <1>7, <1>8, <1>9, <1>10 DEF WorkerStep

(* An edit spares the sub-ledgers that something refers to, or takes an    *)
(* account with all that is on it.                                         *)
Spares(l) ==
    \/ owner'[l] = owner[l]
    \/ owner[l] = None
    \/ (\A i \in Imports : l \notin selected[i]) /\ (\A t \in txns : t.ledger # l)

LEMMA EditShape ==
  ASSUME TypeInv, EditStep
  PROVE  /\ UNCHANGED <<uploadVars, workerVars, queue>>
         /\ \/ /\ UNCHANGED <<removed, status, detail, selected, anchored, txns>>
               /\ \A l \in SubLedgers : Spares(l)
            \/ \E a \in Accounts : RemoveAccount(a)
<1>1. UNCHANGED <<uploadVars, workerVars, queue>>
  BY DEF EditStep, RemoveAccount, UpdateProvider, DeleteSubLedger, RenameSubLedger,
         CreateSubLedger
<1>2. owner \in [SubLedgers -> Accounts \cup {None, "deleted"}]
  BY DEF TypeInv, TypeOK
<1>3. ASSUME UNCHANGED owner PROVE \A l \in SubLedgers : Spares(l)
  BY <1>3 DEF Spares
<1>4. ASSUME NEW l \in SubLedgers, DeleteSubLedger(l)
      PROVE  /\ UNCHANGED <<removed, status, detail, selected, anchored, txns>>
             /\ \A m \in SubLedgers : Spares(m)
  BY <1>2, <1>4 DEF DeleteSubLedger, Spares
<1>5. ASSUME NEW a \in Accounts, NEW l \in SubLedgers, NEW n \in Names, CreateSubLedger(a, l, n)
      PROVE  /\ UNCHANGED <<removed, status, detail, selected, anchored, txns>>
             /\ \A m \in SubLedgers : Spares(m)
  BY <1>2, <1>5 DEF CreateSubLedger, Spares
<1>6. ASSUME \/ \E a \in Accounts, p \in Providers : UpdateProvider(a, p)
             \/ \E l \in SubLedgers, n \in Names : RenameSubLedger(l, n)
      PROVE  UNCHANGED <<owner, removed, status, detail, selected, anchored, txns>>
  BY <1>6 DEF UpdateProvider, RenameSubLedger
<1> QED  BY <1>1, <1>3, <1>4, <1>5, <1>6 DEF EditStep

-----------------------------------------------------------------------------
(* The status of an import tells where it stands: absent before its row is *)
(* written, pending until its worker is done with it, and gone with its    *)
(* account.  Its rows are on the account of its upload.                    *)

Fate(i) ==
    /\ upc[i] \in {"idle", "rejected", "put_object", "create"} => status[i] = "absent"
    /\ upc[i] \in Uploading \/ Listed(i) => status[i] \in {"absent", "pending"}
    /\ status[i] # "absent" => ~Gone(i)

JobFate(w) ==
    job[w] # None /\ wpc[w] # "failing" => status[job[w]] \in {"absent", "pending"}

Placed == \A t \in txns : t.account = AccountOf(t.import)

FateInv ==
    /\ \A i \in Imports : Fate(i)
    /\ \A w \in Workers : JobFate(w)
    /\ Placed

LEMMA UploadFateInv ==
  ASSUME TypeInv, FateInv, NEW i \in Imports, UploadStep(i) \/ UploadFails(i)
  PROVE  FateInv'
<1>1. /\ UploadTables(i)
      /\ \A j \in Imports \ {i} : Listed(j)' => Listed(j)
  BY UploadShape
<1>2. /\ upc \in [Imports -> UploadPc]
      /\ status \in [Imports -> {"absent", "pending", "parsed", "failed"}]
      /\ job \in [Workers -> Imports \cup {None}]
  BY DEF TypeInv, TypeOK
<1>3. /\ UNCHANGED <<request, removed, job, wpc, txns>>
      /\ upc[i] \in Uploading /\ Fate(i)
  BY <1>1 DEF UploadTables, workerVars, accountVars, FateInv
<1>4. ~Released(i)  BY <1>3 DEF Released, Uploading
<1>5. \A w \in Workers : job[w] # i  BY <1>4, Unreleased
<1>6. Fate(i)'
  <2>1. upc'[i] \in {"idle", "rejected", "put_object", "create"} => upc[i] = "put_object"
    BY <1>1, <1>2 DEF UploadTables, After, Uploading
  <2>2. \/ status' = status
        \/ upc[i] = "create" /\ status'[i] = "pending" /\ ~Gone(i)
    BY <1>1, <1>2 DEF UploadTables
  <2>3. Gone(i)' <=> Gone(i)  BY <1>3 DEF Gone, AccountOf
  <2> QED  BY <1>3, <2>1, <2>2, <2>3 DEF Fate
<1>7. ASSUME NEW j \in Imports \ {i} PROVE Fate(j)'
  <2>1. upc'[j] = upc[j] /\ status'[j] = status[j] /\ (Listed(j)' => Listed(j)) /\ Fate(j)
    BY <1>1, <1>2 DEF UploadTables, FateInv
  <2>2. Gone(j)' <=> Gone(j)  BY <1>3 DEF Gone, AccountOf
  <2> QED  BY <2>1, <2>2 DEF Fate
<1>8. ASSUME NEW w \in Workers PROVE JobFate(w)'
  <2>1. JobFate(w) /\ \A j \in Imports \ {i} : status'[j] = status[j]
    BY <1>1, <1>2 DEF UploadTables, FateInv
  <2> QED  BY <1>2, <1>3, <1>5, <2>1 DEF JobFate
<1>9. Placed'  BY <1>3 DEF FateInv, Placed, AccountOf
<1> QED  BY <1>6, <1>7, <1>8, <1>9 DEF FateInv

LEMMA AdmitFateInv ==
  ASSUME TypeInv, FateInv, PostedIsLate, NEW i \in Imports, NEW a \in Accounts, NEW f \in Files,
         NEW S \in SUBSET SubLedgers, NEW opens \in BOOLEAN, AdmitUpload(i, a, f, S, opens)
  PROVE  FateInv'
<1>1. /\ upc \in [Imports -> UploadPc] /\ request \in [Imports -> Request \cup {None}]
      /\ txns \subseteq Transaction
  BY DEF TypeInv, TypeOK
<1>2. /\ upc[i] = "idle" /\ \E p \in {"put_object", "rejected"} : upc' = [upc EXCEPT ![i] = p]
      /\ \A j \in Imports \ {i} : request'[j] = request[j]
      /\ UNCHANGED <<removed, status, queue, job, wpc, txns>>
  BY <1>1 DEF AdmitUpload, accountVars, workerVars
<1>3. ~Released(i)  BY <1>2 DEF Released
<1>4. ~Listed(i)'  BY <1>2, <1>3, Unreleased DEF Listed
<1>5. Fate(i)'
  BY <1>1, <1>2, <1>4 DEF FateInv, Fate
<1>6. ASSUME NEW j \in Imports \ {i} PROVE Fate(j)'
  <2>1. upc'[j] = upc[j] /\ request'[j] = request[j] /\ Fate(j)
    BY <1>1, <1>2 DEF FateInv
  <2> QED  BY <1>2, <2>1 DEF Fate, Gone, AccountOf, Listed
<1>7. \A w \in Workers : JobFate(w)'
  BY <1>2 DEF FateInv, JobFate
<1>8. Placed'
  <2>1. \A t \in txns : t.import \in Imports \ {i}
    BY <1>1, <1>3 DEF PostedIsLate, Transaction
  <2> QED  BY <1>2, <2>1 DEF FateInv, Placed, AccountOf
<1> QED  BY <1>5, <1>6, <1>7, <1>8 DEF FateInv

LEMMA PopFateInv ==
  ASSUME TypeInv, FateInv, NEW w \in Workers, Pop(w)
  PROVE  FateInv'
<1>1. /\ Len(queue) \in Nat \ {0} /\ queue[1] \in Imports
      /\ job' = [job EXCEPT ![w] = queue[1]]
      /\ \A k \in 1..Len(queue') : queue'[k] = queue[k + 1] /\ k + 1 \in 1..Len(queue)
  BY PopShape
<1>2. /\ UNCHANGED <<accountVars, uploadVars, status, txns>>
      /\ wpc' = [wpc EXCEPT ![w] = "read"]
  BY DEF Pop
<1>3. /\ job \in [Workers -> Imports \cup {None}] /\ wpc \in [Workers -> WorkerPc]
  BY DEF TypeInv, TypeOK
<1>4. \A i \in Imports : Listed(i)' => Listed(i)
  BY <1>1 DEF Listed
<1>5. \A i \in Imports : Fate(i)'
  BY <1>2, <1>4 DEF FateInv, Fate, Gone, AccountOf, accountVars, uploadVars
<1>6. ASSUME NEW v \in Workers PROVE JobFate(v)'
  <2>1. CASE v = w
    <3>1. Listed(queue[1])  BY <1>1 DEF Listed
    <3>2. status[queue[1]] \in {"absent", "pending"}
      BY <1>1, <3>1 DEF FateInv, Fate
    <3> QED  BY <1>1, <1>2, <1>3, <2>1, <3>2 DEF JobFate
  <2>2. CASE v # w
    BY <1>1, <1>2, <1>3, <2>2 DEF FateInv, JobFate
  <2> QED  BY <2>1, <2>2
<1>7. Placed'  BY <1>2 DEF FateInv, Placed, AccountOf, uploadVars
<1> QED  BY <1>5, <1>6, <1>7 DEF FateInv

LEMMA WorkerFateInv ==
  ASSUME TypeInv, OnceOnly, FateInv, NEW w \in Workers,
         WorkerStep(w) \/ CallFails(w) \/ Crash(w), ~Pop(w)
  PROVE  FateInv'
<1>1. WorkerTables(w)  BY WorkerTablesHold
<1>2. PICK n : JobStep(w, n)  BY WorkerShape
<1>3. /\ job \in [Workers -> Imports \cup {None}] /\ wpc \in [Workers -> WorkerPc]
      /\ upc \in [Imports -> UploadPc]
  BY DEF TypeInv, TypeOK
<1>4. /\ job[w] \in Imports /\ job[w] # None
      /\ UNCHANGED <<upc, request, removed, queue>>
  BY <1>1, ConstantsAssumption DEF WorkerTables, accountVars, uploadVars
<1>5. Released(job[w]) /\ ~Listed(job[w])
  BY <1>4 DEF TypeInv, JobsReleased, OnceOnly
<1>6. ASSUME NEW i \in Imports PROVE Fate(i)'
  <2>1. Fate(i) /\ (Gone(i)' <=> Gone(i)) /\ (Listed(i)' <=> Listed(i))
    BY <1>4 DEF FateInv, Gone, AccountOf, Listed
  <2>2. status[i] = "absent" <=> status'[i] = "absent"
    BY <1>1 DEF WorkerTables
  <2>3. CASE i = job[w]
    BY <1>4, <1>5, <2>1, <2>2, <2>3 DEF Fate, Released, Uploading
  <2>4. CASE i # job[w]
    <3>1. status'[i] = status[i]  BY <1>1, <2>4 DEF WorkerTables
    <3> QED  BY <1>4, <2>1, <3>1 DEF Fate
  <2> QED  BY <2>3, <2>4
<1>7. ASSUME NEW v \in Workers PROVE JobFate(v)'
  <2>1. JobFate(v)  BY DEF FateInv
  <2>2. CASE v = w
    <3>1. /\ job'[w] = IF n = "brpop" THEN None ELSE job[w]
          /\ wpc'[w] = n /\ (wpc[w] = "failing" => n = "brpop")
      BY <1>2, <1>3 DEF JobStep
    <3>2. n \in {"brpop", "failing"} \/ status' = status
      BY <1>1, <3>1 DEF WorkerTables
    <3> QED  BY <2>1, <2>2, <3>1, <3>2 DEF JobFate
  <2>3. CASE v # w
    <3>1. job'[v] = job[v] /\ wpc'[v] = wpc[v]
      BY <1>2, <1>3, <2>3 DEF JobStep
    <3>2. job[v] # None => job[v] \in Imports /\ job[v] # job[w]
      BY <1>3, <2>3 DEF OnceOnly
    <3>3. job[v] # None => status'[job[v]] = status[job[v]]
      BY <1>1, <3>2 DEF WorkerTables
    <3> QED  BY <2>1, <3>1, <3>3 DEF JobFate
  <2> QED  BY <2>2, <2>3
<1>8. Placed'
  <2>1. \A t \in txns' : t \in txns \/ t.account = AccountOf(t.import)
    BY <1>1 DEF WorkerTables, Adds
  <2> QED  BY <1>4, <2>1 DEF FateInv, Placed, AccountOf
<1> QED  BY <1>6, <1>7, <1>8 DEF FateInv

LEMMA EditFateInv ==
  ASSUME TypeInv, FateInv, EditStep
  PROVE  FateInv'
<1>1. UNCHANGED <<upc, request, job, wpc, queue>>
  BY EditShape DEF uploadVars, workerVars
<1>2. CASE UNCHANGED <<removed, status, txns>>
  <2>1. \A i \in Imports : Fate(i)'
    BY <1>1, <1>2 DEF FateInv, Fate, Gone, AccountOf, Listed
  <2>2. \A w \in Workers : JobFate(w)'
    BY <1>1, <1>2 DEF FateInv, JobFate
  <2> QED  BY <1>1, <1>2, <2>1, <2>2 DEF FateInv, Placed, AccountOf
<1>3. ASSUME NEW a \in Accounts, RemoveAccount(a) PROVE FateInv'
  <2>1. /\ removed' = removed \cup {a}
        /\ status' = [i \in Imports |-> IF request[i] # None /\ AccountOf(i) = a
                                        THEN "absent" ELSE status[i]]
        /\ txns' \subseteq txns
    BY <1>3 DEF RemoveAccount
  <2>2. ASSUME NEW i \in Imports PROVE Fate(i)'
    <3>1. Fate(i) /\ (Listed(i)' <=> Listed(i))  BY <1>1 DEF FateInv, Listed
    <3>2. CASE request[i] # None /\ AccountOf(i) = a
      BY <2>1, <3>2 DEF Fate
    <3>3. CASE request[i] # None /\ AccountOf(i) # a
      <4>1. Gone(i)' <=> Gone(i)  BY <1>1, <2>1, <3>3 DEF Gone, AccountOf
      <4> QED  BY <1>1, <2>1, <3>1, <3>3, <4>1 DEF Fate
    <3>4. CASE request[i] = None
      <4>1. upc[i] \in {"idle", "rejected"}
        BY <3>4, NoneAssumption DEF TypeInv, Admitted
      <4> QED  BY <1>1, <2>1, <3>1, <3>4, <4>1 DEF Fate
    <3> QED  BY <3>2, <3>3, <3>4
  <2>3. ASSUME NEW w \in Workers PROVE JobFate(w)'
    <3>1. JobFate(w) /\ (job[w] # None => job[w] \in Imports)
      BY DEF FateInv, TypeInv, TypeOK
    <3> QED  BY <1>1, <2>1, <3>1 DEF JobFate
  <2>4. Placed'  BY <1>1, <2>1 DEF FateInv, Placed, AccountOf
  <2> QED  BY <2>2, <2>3, <2>4 DEF FateInv
<1> QED  BY <1>2, <1>3, EditShape

LEMMA NextFateInv ==
  TypeInv /\ OnceOnly /\ PostedIsLate /\ FateInv /\ [Next]_vars => FateInv'
<1> SUFFICES ASSUME TypeInv, OnceOnly, PostedIsLate, FateInv, [Next]_vars PROVE FateInv'
  OBVIOUS
<1>1. CASE UNCHANGED vars
  <2>1. UNCHANGED <<upc, request, removed, status, txns, job, wpc, queue>>
    BY <1>1 DEF vars, accountVars, uploadVars, workerVars
  <2> QED  BY <2>1 DEF FateInv, Fate, JobFate, Placed, Gone, AccountOf, Listed
<1> QED
  BY <1>1, UploadFateInv, AdmitFateInv, PopFateInv, WorkerFateInv, EditFateInv DEF Next

LEMMA FateHolds ==
  Spec => [](TypeInv /\ OnceOnly /\ RejectInv /\ PostedIsLate /\ DurableInv /\ FateInv)
<1>1. Init => OnceOnly /\ RejectInv /\ DurableInv /\ FateInv
  <2> SUFFICES ASSUME Init PROVE OnceOnly /\ RejectInv /\ DurableInv /\ FateInv
    OBVIOUS
  <2>1. OnceOnly  BY DEF Init, OnceOnly, Listed
  <2>2. RejectInv
    BY DEF Init, RejectInv, PostedIsLate, RejectedIsOver, RejectedWroteNothing, IsRejected, RowsOf
  <2>3. DurableInv  BY DEF Init, DurableInv, Prepared, Listed
  <2>4. FateInv  BY DEF Init, FateInv, Fate, JobFate, Placed
  <2> QED  BY <2>1, <2>2, <2>3, <2>4
<1>2. RejectInv => PostedIsLate  BY DEF RejectInv
<1>3. TypeInv /\ OnceOnly /\ [Next]_vars => OnceOnly'  BY OnceOnlyInductive
<1> QED
  BY <1>1, <1>2, <1>3, InitTypeInv, NextTypeInv, NextRejectInv, NextDurableInv, NextFateInv,
     PTL DEF Spec

-----------------------------------------------------------------------------
(* Each step is one of ImportLifecycle or leaves its variables alone. *)

States == [i \in Imports |-> StateOf(i)]
Book   == {[account |-> t.account, hash |-> t.hash, import |-> t.import] : t \in txns}

LEMMA Unnoticed ==
  ASSUME UNCHANGED <<status, detail, txns>>
  PROVE  UNCHANGED Lifecycle!vars
<1>1. UNCHANGED <<States, Book>>  BY DEF States, StateOf, Book
<1> QED  BY <1>1 DEF States, Book, Lifecycle!vars

(* A change of one import's state. *)
LEMMA MoveStep ==
  ASSUME NEW i \in Imports, NEW from, NEW to, UNCHANGED txns,
         StateOf(i) \in from, StateOf(i)' = to,
         \A j \in Imports \ {i} : status'[j] = status[j] /\ detail'[j] = detail[j]
  PROVE  Lifecycle!Move(i, from, to)
<1>1. Book' = Book  BY DEF Book
<1>2. States[i] \in from /\ States' = [States EXCEPT ![i] = to]
  BY DEF States, StateOf
<1> QED  BY <1>1, <1>2 DEF States, Book, Lifecycle!Move

LEMMA UploadRefines ==
  ASSUME TypeInv, FateInv, NEW i \in Imports, UploadStep(i) \/ UploadFails(i)
  PROVE  [Lifecycle!Next]_(Lifecycle!vars)
<1>1. UploadTables(i)  BY UploadShape
<1>2. CASE UNCHANGED status
  BY <1>1, <1>2, Unnoticed DEF UploadTables
<1>3. CASE upc[i] = "create" /\ status' = [status EXCEPT ![i] = "pending"]
  <2>1. status \in [Imports -> {"absent", "pending", "parsed", "failed"}]
    BY DEF TypeInv, TypeOK
  <2>2. StateOf(i) = "absent" /\ StateOf(i)' = "pending"
    BY <1>3, <2>1 DEF FateInv, Fate, StateOf
  <2>3. Lifecycle!Move(i, {"absent"}, "pending")
    BY <1>1, <1>3, <2>1, <2>2, MoveStep DEF UploadTables
  <2> QED  BY <2>3 DEF Lifecycle!Next, Lifecycle!Submit
<1> QED  BY <1>1, <1>2, <1>3 DEF UploadTables

LEMMA MarkRefines ==
  ASSUME TypeInv, FateInv, PostedIsLate, NEW w \in Workers, MarkParsed(w) \/ MarkFailed(w)
  PROVE  [Lifecycle!Next]_(Lifecycle!vars)
<1>1. /\ status \in [Imports -> {"absent", "pending", "parsed", "failed"}]
      /\ detail \in [Imports -> Marking \cup {"none"}]
  BY DEF TypeInv, TypeOK
<1>2. wpc[w] # "brpop" /\ txns' = txns
  BY DEF MarkParsed, MarkFailed, Marking
<1>3. PICK i \in Imports : i = job[w] /\ i # None
  BY <1>2, JobFacts, ConstantsAssumption
<1>4. wpc[w] # "failing" => status[i] \in {"absent", "pending"}
  BY <1>3 DEF FateInv, JobFate
<1>5. CASE UNCHANGED <<status, detail>>  BY <1>2, <1>5, Unnoticed
<1>6. CASE MarkParsed(w) /\ status[i] # "absent"
  <2>1. status' = [status EXCEPT ![i] = "parsed"] /\ detail' = detail
    BY <1>3, <1>6 DEF MarkParsed
  <2>2. StateOf(i) = "pending" /\ StateOf(i)' = "parsed"
    BY <1>1, <1>3, <1>4, <1>6, <2>1 DEF StateOf, MarkParsed
  <2>3. Lifecycle!Move(i, {"pending"}, "parsed")
    BY <1>1, <1>2, <1>3, <2>1, <2>2, MoveStep
  <2> QED  BY <1>3, <2>3 DEF Lifecycle!Next, Lifecycle!Settle
<1>7. CASE MarkFailed(w) /\ status[i] # "absent"
  <2>1. /\ wpc[w] \in Marking
        /\ status' = [status EXCEPT ![i] = "failed"]
        /\ detail' = [detail EXCEPT ![i] = wpc[w]]
    BY <1>3, <1>7 DEF MarkFailed
  <2>2. CASE wpc[w] \in {"no parser", "rejected"}
    <3>1. StateOf(i) = "pending" /\ StateOf(i)' = "rejected"
      BY <1>1, <1>3, <1>4, <1>7, <2>1, <2>2 DEF StateOf
    <3>2. Lifecycle!Move(i, {"pending"}, "rejected")
      BY <1>1, <1>2, <1>3, <2>1, <3>1, MoveStep
    <3>3. \A t \in txns : t.import # i
      BY <1>3, <2>2 DEF PostedIsLate, Late
    <3>4. {r \in Book : r.import = i} = {}  BY <3>3 DEF Book
    <3> QED  BY <1>3, <3>2, <3>4 DEF Book, Lifecycle!Next, Lifecycle!Reject, Lifecycle!PostedBy
  <2>3. CASE wpc[w] = "failing"
    <3>1. /\ StateOf(i) \in {"pending", "parsed", "rejected", "failed"}
          /\ StateOf(i)' = "failed"
      BY <1>1, <1>3, <1>7, <2>1, <2>3 DEF StateOf
    <3>2. CASE StateOf(i) = "failed"
      <4>1. States' = States /\ Book' = Book
        BY <1>1, <1>2, <2>1, <3>1, <3>2 DEF States, StateOf, Book
      <4> QED  BY <4>1 DEF States, Book, Lifecycle!vars
    <3>3. CASE StateOf(i) \in {"pending", "parsed", "rejected"}
      <4>1. Lifecycle!Move(i, {"pending", "parsed", "rejected"}, "failed")
        BY <1>1, <1>2, <1>3, <2>1, <3>1, <3>3, MoveStep
      <4> QED  BY <1>3, <4>1 DEF Lifecycle!Next, Lifecycle!Fail
    <3> QED  BY <3>1, <3>2, <3>3
  <2> QED  BY <2>1, <2>2, <2>3 DEF Marking
<1> QED  BY <1>3, <1>5, <1>6, <1>7 DEF MarkParsed, MarkFailed

LEMMA InsertRefines ==
  ASSUME TypeInv, FateInv, DurableInv, NEW w \in Workers, NEW batch \in todo[w],
         InsertTransactions(w, batch)
  PROVE  [Lifecycle!Next]_(Lifecycle!vars)
<1>0. wpc[w] = "insert"  BY DEF InsertTransactions
<1>1. PICK i \in Imports, a \in Accounts, H \in SUBSET Hashes :
         i = job[w] /\ i # None /\ a = AccountOf(i) /\ H = batch.rows \ HashesOn(a)
  <2>1. /\ job[w] \in Imports /\ job[w] # None /\ AccountOf(job[w]) \in Accounts
        /\ batch.rows \in SUBSET Hashes
    BY <1>0, JobFacts, ConstantsAssumption DEF TypeInv, TypeOK, Batch
  <2>2. batch.rows \ HashesOn(AccountOf(job[w])) \in SUBSET Hashes  BY <2>1
  <2> QED  BY <2>1, <2>2
<1>2. /\ wpc[w] = "insert" /\ UNCHANGED <<status, detail>>
      /\ \/ txns' = txns
         \/ txns' = txns \cup NewRows(i, batch) /\ (batch.rows = {} \/ ~Gone(i))
  BY <1>1 DEF InsertTransactions, Gone
<1>3. Durable(i) /\ status[i] \in {"absent", "pending"} /\ Placed
  BY <1>0, <1>1 DEF DurableInv, FateInv, JobFate
<1>4. CASE txns' = txns  BY <1>2, <1>4, Unnoticed
<1>5. CASE batch.rows = {} /\ txns' = txns \cup NewRows(i, batch)
  <2>1. NewRows(i, batch) = {}  BY <1>5 DEF NewRows
  <2> QED  BY <1>2, <1>5, <2>1, Unnoticed
<1>6. CASE ~Gone(i) /\ txns' = txns \cup NewRows(i, batch)
  <2>1. StateOf(i) = "pending" /\ States' = States
    BY <1>2, <1>3, <1>6 DEF Durable, StateOf, States
  <2>2. Book' = Book \cup {[account |-> a, hash |-> h, import |-> i] : h \in H}
    <3>1. NewRows(i, batch) =
             {[account |-> a, hash |-> h, import |-> i, ledger |-> batch.ledger] : h \in H}
      BY <1>1 DEF NewRows
    <3>2. {[account |-> t.account, hash |-> t.hash, import |-> t.import] : t \in NewRows(i, batch)}
            = {[account |-> a, hash |-> h, import |-> i] : h \in H}
      <4>1. \A t \in NewRows(i, batch) : t.account = a /\ t.import = i /\ t.hash \in H
        BY <3>1
      <4>2. ASSUME NEW h \in H
            PROVE  \E t \in NewRows(i, batch) : t.account = a /\ t.import = i /\ t.hash = h
        <5>1. [account |-> a, hash |-> h, import |-> i, ledger |-> batch.ledger]
                 \in NewRows(i, batch)
          BY <3>1
        <5> QED  BY <5>1
      <4> QED  BY <4>1, <4>2
    <3> QED  BY <1>6, <3>2 DEF Book
  <2>3. \A r \in Book : r.account = a => r.hash \notin H
    BY <1>1 DEF Book, HashesOn
  <2>4. \A r \in Book : r.import = i => r.account = a
    BY <1>1, <1>3 DEF Book, Placed
  <2>5. Lifecycle!Post(i, a)
    BY <2>1, <2>2, <2>3, <2>4 DEF Lifecycle!Post, Lifecycle!PostedBy, States, Book
  <2> QED  BY <2>5 DEF Lifecycle!Next
<1> QED  BY <1>2, <1>4, <1>5, <1>6

LEMMA EditRefines ==
  ASSUME TypeInv, FateInv, PostedIsLate, EditStep
  PROVE  [Lifecycle!Next]_(Lifecycle!vars)
<1>1. CASE UNCHANGED <<status, detail, txns>>  BY <1>1, Unnoticed
<1>2. ASSUME NEW a \in Accounts, RemoveAccount(a) PROVE Lifecycle!Next
  <2>1. PICK I \in SUBSET Imports : I = {i \in Imports : request[i] # None /\ AccountOf(i) = a}
    OBVIOUS
  <2>2. /\ status' = [i \in Imports |-> IF i \in I THEN "absent" ELSE status[i]]
        /\ detail' = [i \in Imports |-> IF i \in I THEN "none" ELSE detail[i]]
        /\ txns' = {t \in txns : t.account # a}
    BY <1>2, <2>1 DEF RemoveAccount
  <2>3. \A t \in txns : t.import \in Imports /\ request[t.import] # None
    BY NoneAssumption DEF TypeInv, TypeOK, Transaction, PostedIsLate, Released, Admitted
  <2>4. \A t \in txns : t.account = a <=> t.import \in I
    BY <2>1, <2>3 DEF FateInv, Placed
  <2>5. States' = [i \in Imports |-> IF i \in I THEN "absent" ELSE States[i]]
    BY <2>2 DEF States, StateOf
  <2>6. Book' = {r \in Book : r.account # a}
    BY <2>2 DEF Book
  <2>7. \A r \in Book : r.account = a <=> r.import \in I
    BY <2>4 DEF Book
  <2>8. Lifecycle!Remove(a, I)
    BY <2>5, <2>6, <2>7 DEF Lifecycle!Remove, States, Book
  <2> QED  BY <2>8 DEF Lifecycle!Next
<1> QED  BY <1>1, <1>2, EditShape

LEMMA NextRefines ==
  TypeInv /\ FateInv /\ PostedIsLate /\ DurableInv /\ [Next]_vars
    => [Lifecycle!Next]_(Lifecycle!vars)
<1> SUFFICES ASSUME TypeInv, FateInv, PostedIsLate, DurableInv, [Next]_vars
             PROVE  [Lifecycle!Next]_(Lifecycle!vars)
  OBVIOUS
<1>1. CASE UNCHANGED vars
  BY <1>1, Unnoticed DEF vars
<1>2. ASSUME NEW i \in Imports, NEW a \in Accounts, NEW f \in Files,
             NEW S \in SUBSET SubLedgers, NEW opens \in BOOLEAN, AdmitUpload(i, a, f, S, opens)
      PROVE  [Lifecycle!Next]_(Lifecycle!vars)
  <2>1. UNCHANGED <<status, detail, txns>>  BY <1>2 DEF AdmitUpload
  <2> QED  BY <2>1, Unnoticed
<1>3. ASSUME NEW w \in Workers, WorkerStep(w) \/ CallFails(w) \/ Crash(w)
      PROVE  [Lifecycle!Next]_(Lifecycle!vars)
  <2>1. CASE MarkParsed(w) \/ MarkFailed(w)  BY <2>1, MarkRefines
  <2>2. CASE \E batch \in todo[w] : InsertTransactions(w, batch)  BY <2>2, InsertRefines
  <2>3. CASE Pop(w) \/ ReadImport(w) \/ FetchObject(w) \/ Parse(w) \/ ResolveSections(w)
             \/ SetOpeningBalances(w) \/ CallFails(w) \/ Crash(w)
    <3>1. UNCHANGED <<status, detail, txns>>
      BY <2>3 DEF Pop, ReadImport, FetchObject, Parse, ResolveSections, SetOpeningBalances,
                  CallFails, Crash
    <3> QED  BY <3>1, Unnoticed
  <2> QED  BY <1>3, <2>1, <2>2, <2>3 DEF WorkerStep
<1> QED  BY <1>1, <1>2, <1>3, UploadRefines, EditRefines DEF Next

(* What statement_imports.py, worker.py and insert_transactions do         *)
(* together, under any interleaving, fault and edit, is what               *)
(* ImportLifecycle allows: no row twice or in other hands, none of a       *)
(* rejected import, and no way back from a failure.                        *)
THEOREM PipelineImplementsLifecycle == Spec => ImplementsLifecycle
<1>1. Init => Lifecycle!Init
  <2> SUFFICES ASSUME Init PROVE Lifecycle!Init
    OBVIOUS
  <2>1. States = [i \in Imports |-> "absent"] /\ Book = {}
    BY DEF Init, States, StateOf, Book
  <2> QED  BY <2>1 DEF States, Book, Lifecycle!Init
<1> QED
  BY <1>1, FateHolds, NextRefines, PTL DEF Spec, ImplementsLifecycle, Lifecycle!Spec

-----------------------------------------------------------------------------
(* How a worker comes to the phases in which it holds batches.             *)

Chooses(w) ==
    wpc'[w] = "selection" /\ ParseOutcome[<<MentorSacco, FileOf(job[w])>>] = "ok"

StartsFlat(w) ==
    /\ wpc'[w] = "insert"
    /\ \E p \in PARSERS :
          /\ ParseOutcome[<<p, FileOf(job[w])>>] = "ok"
          /\ todo'[w] = {[ledger |-> None, rows |-> FlatRows[<<p, FileOf(job[w])>>]]}

StartsSections(w) ==
    LET S == selected[job[w]]
        f == FileOf(job[w])
    IN  /\ wpc[w] = "selection" /\ wpc'[w] = "insert"
        /\ S # {} /\ \A l \in S : name[l] \in Headings[f]
        /\ todo'[w] = {[ledger |-> l, rows |-> SectionRows[<<f, name[l]>>]] : l \in S}

Inserts(w, batch) ==
    /\ wpc[w] = "insert"
    /\ txns' = txns \cup NewRows(job[w], batch)
    /\ todo'[w] = todo[w] \ {batch}
    /\ openings[w] \subseteq openings'[w]
    /\ batch.ledger # None /\ batch.rows # {} => batch.ledger \in openings'[w]
    /\ wpc'[w] \in {"insert", "openings", "parsed"}
    /\ wpc'[w] # "insert" => todo'[w] = {}
    /\ wpc'[w] = "parsed" => openings'[w] = {}

Anchors(w) ==
    /\ wpc[w] = "openings" /\ wpc'[w] = "parsed"
    /\ todo'[w] = todo[w] /\ openings'[w] = openings[w]
    /\ openings[w] \cap selected[job[w]] \subseteq anchored'[job[w]]

Phases == {"selection", "insert", "openings", "parsed"}

LEMMA GotoPhase ==
  ASSUME TypeInv, NEW w \in Workers, NEW n, Goto(w, n)
  PROVE  wpc'[w] = n /\ (n # "brpop" => todo'[w] = todo[w] /\ openings'[w] = openings[w])
  BY DEF Goto, Release, TypeInv, TypeOK

LEMMA WorkerPhases ==
  ASSUME TypeInv, NEW w \in Workers, WorkerStep(w) \/ CallFails(w) \/ Crash(w)
  PROVE  \/ wpc'[w] \notin Phases
         \/ Chooses(w) \/ StartsFlat(w) \/ StartsSections(w) \/ Anchors(w)
         \/ \E batch \in todo[w] : Inserts(w, batch)
<1>1. /\ wpc \in [Workers -> WorkerPc] /\ todo \in [Workers -> SUBSET Batch]
      /\ openings \in [Workers -> SUBSET SubLedgers]
      /\ anchored \in [Imports -> SUBSET SubLedgers]
  BY DEF TypeInv, TypeOK
<1>2. ASSUME Goto(w, Except(w)) PROVE wpc'[w] \notin Phases
  BY <1>2, GotoPhase DEF Except, Phases
<1>3. CASE Pop(w)  BY <1>1, <1>3 DEF Pop, Phases
<1>4. CASE ReadImport(w)
  BY <1>1, <1>4 DEF ReadImport, Release, Phases
<1>5. CASE FetchObject(w)
  <2>1. wpc'[w] = "parse" \/ Goto(w, Except(w))
    BY <1>5, GotoPhase DEF FetchObject
  <2> QED  BY <1>2, <2>1 DEF Phases
<1>6. CASE Parse(w)
  <2> DEFINE f == FileOf(job[w])
             pf == <<parsedAs[w], f>>
  <2>1. /\ wpc[w] = "parse" /\ parsedAs[w] \in PARSERS \cup {MentorSacco} /\ f \in Files
    BY <1>6, JobFacts DEF Parse, TypeInv, ParserChosen, Parsers
  <2>2. ParseOutcome[pf] \in {"ok", "rejected", "error"}
    BY <2>1, ConstantsAssumption DEF Parsers
  <2>3. CASE ParseOutcome[pf] = "ok" /\ parsedAs[w] # MentorSacco
    <3>1. /\ wpc'[w] = "insert"
          /\ todo'[w] = {[ledger |-> None, rows |-> FlatRows[pf]]}
      BY <1>1, <1>6, <2>3 DEF Parse
    <3> QED  BY <2>1, <2>3, <3>1 DEF StartsFlat
  <2>4. CASE ParseOutcome[pf] = "ok" /\ parsedAs[w] = MentorSacco
    <3>1. Goto(w, "selection")  BY <1>6, <2>4, Zenon DEF Parse
    <3> QED  BY <2>4, <3>1, GotoPhase DEF Chooses
  <2>5. CASE ParseOutcome[pf] = "rejected"
    <3>1. Goto(w, "rejected")  BY <1>6, <2>5, Zenon DEF Parse
    <3> QED  BY <3>1, GotoPhase DEF Phases
  <2>6. CASE ParseOutcome[pf] = "error"
    <3>1. Goto(w, Except(w))  BY <1>6, <2>6, Zenon DEF Parse
    <3> QED  BY <1>2, <3>1
  <2> QED  BY <2>2, <2>3, <2>4, <2>5, <2>6
<1>7. CASE ResolveSections(w)
  <2>1. CASE Goto(w, "rejected")  BY <2>1, GotoPhase DEF Phases
  <2>2. CASE ~Goto(w, "rejected")
    BY <1>1, <1>7, <2>2 DEF ResolveSections, StartsSections, ImportSubLedgers
  <2> QED  BY <2>1, <2>2
<1>8. ASSUME NEW batch \in todo[w], InsertTransactions(w, batch)
      PROVE  wpc'[w] \notin Phases \/ Inserts(w, batch)
  <2>1. CASE Goto(w, Except(w))  BY <1>2, <2>1
  <2>2. CASE ~Goto(w, Except(w))
    <3> DEFINE left == todo[w] \ {batch}
               derived == IF batch.ledger = None \/ batch.rows = {} THEN openings[w]
                          ELSE openings[w] \cup {batch.ledger}
    <3>1. /\ wpc[w] = "insert" /\ txns' = txns \cup NewRows(job[w], batch)
          /\ wpc' = [wpc EXCEPT ![w] = AfterInserts(left, derived)]
          /\ todo' = [todo EXCEPT ![w] = left]
          /\ openings' = [openings EXCEPT ![w] = derived]
      BY <1>8, <2>2 DEF InsertTransactions
    <3>2. wpc'[w] = AfterInserts(left, derived) /\ todo'[w] = left /\ openings'[w] = derived
      BY <1>1, <3>1
    <3>3. /\ openings[w] \subseteq derived
          /\ batch.ledger # None /\ batch.rows # {} => batch.ledger \in derived
      OBVIOUS
    <3> HIDE DEF left, derived
    <3>4. /\ AfterInserts(left, derived) \in {"insert", "openings", "parsed"}
          /\ AfterInserts(left, derived) # "insert" => left = {}
          /\ AfterInserts(left, derived) = "parsed" => derived = {}
      BY DEF AfterInserts
    <3>5. todo'[w] = todo[w] \ {batch}  BY <3>2 DEF left
    <3> QED  BY <3>1, <3>2, <3>3, <3>4, <3>5 DEF Inserts
  <2> QED  BY <2>1, <2>2
<1>9. CASE SetOpeningBalances(w)
  <2>1. CASE Goto(w, Except(w))  BY <1>2, <2>1
  <2>2. CASE ~Goto(w, Except(w))
    <3>1. /\ wpc[w] = "openings" /\ Goto(w, "parsed")
          /\ anchored' = [anchored EXCEPT ![job[w]] = @ \cup (openings[w] \cap selected[job[w]])]
      BY <1>9, <2>2 DEF SetOpeningBalances, WorkerReply
    <3>2. job[w] \in Imports  BY <3>1, JobFacts
    <3>3. openings[w] \cap selected[job[w]] \subseteq anchored'[job[w]]
      BY <1>1, <3>1, <3>2
    <3> QED  BY <3>1, <3>3, GotoPhase DEF Anchors
  <2> QED  BY <2>1, <2>2
<1>10. CASE MarkParsed(w) \/ MarkFailed(w)
  <2>1. Goto(w, "brpop") \/ Goto(w, Except(w))
    BY <1>10 DEF MarkParsed, MarkFailed, WorkerReply
  <2> QED  BY <1>2, <2>1, GotoPhase DEF Phases
<1>11. CASE CallFails(w)  BY <1>2, <1>11 DEF CallFails
<1>12. CASE Crash(w)  BY <1>1, <1>12 DEF Crash, Release, Phases
<1> QED
  BY <1>3, <1>4, <1>5, <1>6, <1>7, <1>8, <1>9, <1>10, <1>11, <1>12 DEF WorkerStep

(* The other workers stay as they are. *)
LEMMA OtherWorkers ==
  ASSUME TypeInv, NEW w \in Workers, WorkerStep(w) \/ CallFails(w) \/ Crash(w),
         NEW v \in Workers \ {w}
  PROVE  /\ wpc'[v] = wpc[v] /\ job'[v] = job[v]
         /\ todo'[v] = todo[v] /\ openings'[v] = openings[v]
<1>1. /\ wpc \in [Workers -> WorkerPc] /\ todo \in [Workers -> SUBSET Batch]
      /\ job \in [Workers -> Imports \cup {None}]
      /\ openings \in [Workers -> SUBSET SubLedgers]
  BY DEF TypeInv, TypeOK
<1>2. ASSUME NEW n, Goto(w, n)
      PROVE  /\ wpc'[v] = wpc[v] /\ job'[v] = job[v]
             /\ todo'[v] = todo[v] /\ openings'[v] = openings[v]
  BY <1>1, <1>2 DEF Goto, Release
<1>3. CASE Pop(w)  BY <1>1, <1>3 DEF Pop
<1>4. CASE ReadImport(w)  BY <1>1, <1>4 DEF ReadImport, Release
<1>5. CASE Parse(w)
  <2>1. \/ \E n : Goto(w, n)
        \/ /\ \E T : todo' = [todo EXCEPT ![w] = T]
           /\ wpc' = [wpc EXCEPT ![w] = "insert"] /\ UNCHANGED <<job, openings>>
    <3>1. CASE ParseOutcome[<<parsedAs[w], FileOf(job[w])>>] = "ok" /\ parsedAs[w] # MentorSacco
      BY <1>5, <3>1 DEF Parse
    <3>2. CASE ~(ParseOutcome[<<parsedAs[w], FileOf(job[w])>>] = "ok" /\ parsedAs[w] # MentorSacco)
      BY <1>5, <3>2 DEF Parse
    <3> QED  BY <3>1, <3>2
  <2> QED  BY <1>1, <1>2, <2>1
<1>6. CASE ResolveSections(w)  BY <1>1, <1>2, <1>6 DEF ResolveSections
<1>7. ASSUME NEW batch \in todo[w], InsertTransactions(w, batch)
      PROVE  /\ wpc'[v] = wpc[v] /\ job'[v] = job[v]
             /\ todo'[v] = todo[v] /\ openings'[v] = openings[v]
  BY <1>1, <1>2, <1>7 DEF InsertTransactions
<1>8. CASE FetchObject(w) \/ SetOpeningBalances(w) \/ MarkParsed(w) \/ MarkFailed(w)
           \/ CallFails(w) \/ Crash(w)
  <2>1. Release(w) \/ \E n : Goto(w, n)
    BY <1>8 DEF FetchObject, SetOpeningBalances, MarkParsed, MarkFailed, CallFails, Crash,
                WorkerReply
  <2> QED  BY <1>1, <1>2, <2>1 DEF Release
<1> QED  BY <1>3, <1>4, <1>5, <1>6, <1>7, <1>8 DEF WorkerStep

-----------------------------------------------------------------------------
(* Rows are filed under the sub-ledgers that the upload selected, which    *)
(* stay the account's as long as the selection does.                       *)

Owned(i) ==
    \A l \in selected[i] : upc[i] \notin {"idle", "rejected"} /\ owner[l] = AccountOf(i)

Chosen(w) ==
    wpc[w] = "insert" =>
        \A batch \in todo[w] :
            batch.ledger # None => batch.ledger \in selected[job[w]] \/ Gone(job[w])

FiledInv ==
    /\ \A i \in Imports : Owned(i)
    /\ \A w \in Workers : Chosen(w)
    /\ RowsFiledAsSelected

LEMMA UploadFiledInv ==
  ASSUME TypeInv, FiledInv, PostedIsLate, NEW i \in Imports, UploadStep(i) \/ UploadFails(i)
  PROVE  FiledInv'
<1>1. UploadTables(i)  BY UploadShape
<1>2. /\ upc \in [Imports -> UploadPc] /\ selected \in [Imports -> SUBSET SubLedgers]
      /\ txns \subseteq Transaction /\ job \in [Workers -> Imports \cup {None}]
      /\ \A w \in Workers : wpc[w] = "brpop" <=> job[w] = None
  BY DEF TypeInv, TypeOK
<1>3. /\ UNCHANGED <<request, removed, owner, wpc, job, todo, txns>>
      /\ upc[i] \in Uploading
      /\ \A j \in Imports \ {i} : upc'[j] = upc[j] /\ selected'[j] = selected[j]
      /\ upc'[i] \notin {"idle", "rejected"}
  BY <1>1, <1>2 DEF UploadTables, workerVars, accountVars, After, Uploading
<1>4. ~Released(i)  BY <1>3 DEF Released, Uploading
<1>5. \A w \in Workers : job[w] # i  BY <1>4, Unreleased
<1>6. \A t \in txns : t.import \in Imports \ {i}
  BY <1>2, <1>4 DEF PostedIsLate, Transaction
<1>7. ASSUME NEW j \in Imports PROVE Owned(j)'
  <2>1. Owned(j)  BY DEF FiledInv
  <2>2. CASE j # i  BY <1>3, <2>1, <2>2 DEF Owned, AccountOf
  <2>3. CASE j = i
    <3>1. \A l \in selected'[i] : l \in selected[i] \/ owner[l] = AccountOf(i)
      BY <1>1, <1>2 DEF UploadTables, SubLedgersOf
    <3> QED  BY <1>3, <2>1, <2>3, <3>1 DEF Owned, AccountOf
  <2> QED  BY <2>2, <2>3
<1>8. ASSUME NEW w \in Workers PROVE Chosen(w)'
  <2>1. Chosen(w) /\ (wpc[w] = "insert" => job[w] \in Imports \ {i})
    BY <1>2, <1>5 DEF FiledInv
  <2> QED  BY <1>3, <2>1 DEF Chosen, Gone, AccountOf
<1>9. RowsFiledAsSelected'
  BY <1>3, <1>6 DEF FiledInv, RowsFiledAsSelected, AccountOf, SubLedgersOf
<1> QED  BY <1>7, <1>8, <1>9 DEF FiledInv

LEMMA AdmitFiledInv ==
  ASSUME TypeInv, FiledInv, PostedIsLate, NEW i \in Imports, NEW a \in Accounts,
         NEW f \in Files, NEW S \in SUBSET SubLedgers, NEW opens \in BOOLEAN,
         AdmitUpload(i, a, f, S, opens)
  PROVE  FiledInv'
<1>1. /\ upc \in [Imports -> UploadPc] /\ request \in [Imports -> Request \cup {None}]
      /\ txns \subseteq Transaction /\ job \in [Workers -> Imports \cup {None}]
      /\ \A w \in Workers : wpc[w] = "brpop" <=> job[w] = None
  BY DEF TypeInv, TypeOK
<1>2. /\ upc[i] = "idle" /\ \E p \in {"put_object", "rejected"} : upc' = [upc EXCEPT ![i] = p]
      /\ \A j \in Imports \ {i} : request'[j] = request[j]
      /\ UNCHANGED <<removed, owner, selected, wpc, job, todo, txns>>
  BY <1>1 DEF AdmitUpload, accountVars, workerVars
<1>3. ~Released(i)  BY <1>2 DEF Released
<1>4. \A w \in Workers : job[w] # i  BY <1>3, Unreleased
<1>5. \A t \in txns : t.import \in Imports \ {i}
  BY <1>1, <1>3 DEF PostedIsLate, Transaction
<1>6. ASSUME NEW j \in Imports PROVE Owned(j)'
  <2>1. Owned(j)  BY DEF FiledInv
  <2>2. CASE j # i  BY <1>1, <1>2, <2>1, <2>2 DEF Owned, AccountOf
  <2>3. CASE j = i  BY <1>2, <2>1, <2>3 DEF Owned
  <2> QED  BY <2>2, <2>3
<1>7. ASSUME NEW w \in Workers PROVE Chosen(w)'
  <2>1. Chosen(w) /\ (wpc[w] = "insert" => job[w] \in Imports \ {i})
    BY <1>1, <1>4 DEF FiledInv
  <2> QED  BY <1>2, <2>1 DEF Chosen, Gone, AccountOf
<1>8. RowsFiledAsSelected'
  BY <1>2, <1>5 DEF FiledInv, RowsFiledAsSelected, AccountOf, SubLedgersOf
<1> QED  BY <1>6, <1>7, <1>8 DEF FiledInv

LEMMA PopFiledInv ==
  ASSUME TypeInv, FiledInv, NEW w \in Workers, Pop(w)
  PROVE  FiledInv'
<1>1. /\ UNCHANGED <<upc, request, removed, owner, selected, todo, txns>>
      /\ wpc' = [wpc EXCEPT ![w] = "read"]
  BY DEF Pop, accountVars, uploadVars
<1>2. wpc \in [Workers -> WorkerPc]  BY DEF TypeInv, TypeOK
<1>3. ASSUME NEW v \in Workers PROVE Chosen(v)'
  <2>1. CASE v = w  BY <1>1, <1>2, <2>1 DEF Chosen
  <2>2. CASE v # w
    <3>1. wpc'[v] = wpc[v] /\ job'[v] = job[v]  BY <2>2, OtherWorkers DEF WorkerStep
    <3> QED  BY <1>1, <3>1 DEF FiledInv, Chosen, Gone, AccountOf
  <2> QED  BY <2>1, <2>2
<1> QED  BY <1>1, <1>3 DEF FiledInv, Owned, RowsFiledAsSelected, AccountOf, SubLedgersOf

LEMMA WorkerFiledInv ==
  ASSUME TypeInv, FiledInv, NEW w \in Workers,
         WorkerStep(w) \/ CallFails(w) \/ Crash(w), ~Pop(w)
  PROVE  FiledInv'
<1>1. WorkerTables(w)  BY WorkerTablesHold
<1>2. PICK n : JobStep(w, n)  BY WorkerShape
<1>3. /\ UNCHANGED <<upc, request, removed, owner, selected>>
      /\ job[w] \in Imports
  BY <1>1 DEF WorkerTables, accountVars, uploadVars
<1>4. /\ wpc \in [Workers -> WorkerPc] /\ job \in [Workers -> Imports \cup {None}]
      /\ selected \in [Imports -> SUBSET SubLedgers]
  BY DEF TypeInv, TypeOK
<1>5. ASSUME NEW v \in Workers PROVE Chosen(v)'
  <2>1. Chosen(v)  BY DEF FiledInv
  <2>2. CASE v # w
    <3>1. wpc'[v] = wpc[v] /\ job'[v] = job[v] /\ todo'[v] = todo[v]  BY <2>2, OtherWorkers
    <3> QED  BY <1>3, <2>1, <3>1 DEF Chosen, Gone, AccountOf
  <2>3. CASE v = w /\ wpc'[w] = "insert"
    <3>1. job'[w] = job[w]
      BY <1>2, <1>4, <2>3 DEF JobStep
    <3>2. ASSUME NEW batch \in todo'[w], batch.ledger # None
          PROVE  batch.ledger \in selected[job[w]] \/ Gone(job[w])
      <4>1. CASE StartsFlat(w)  BY <3>2, <4>1 DEF StartsFlat
      <4>2. CASE StartsSections(w)
        <5>1. PICK l \in selected[job[w]] : \E rows : batch = [ledger |-> l, rows |-> rows]
          BY <3>2, <4>2 DEF StartsSections
        <5>2. batch.ledger = l  BY <5>1
        <5> QED  BY <5>1, <5>2
      <4>3. CASE \E b \in todo[w] : Inserts(w, b)
        BY <2>1, <2>3, <3>2, <4>3 DEF Inserts, Chosen
      <4> QED
        BY <2>3, <4>1, <4>2, <4>3, WorkerPhases DEF Phases, Chooses, Anchors
    <3> QED  BY <1>3, <2>3, <3>1, <3>2 DEF Chosen, Gone, AccountOf
  <2>4. CASE v = w /\ wpc'[w] # "insert"  BY <2>4 DEF Chosen
  <2> QED  BY <2>2, <2>3, <2>4
<1>6. ASSUME NEW t \in txns', t \notin txns
      PROVE  /\ t.account = AccountOf(t.import)
             /\ t.ledger # None => t.ledger \in selected[t.import] \cap SubLedgersOf(t.account)
  <2>1. Adds(w, t)  BY <1>1, <1>6 DEF WorkerTables
  <2>2. t.ledger # None => t.ledger \in selected[job[w]]
    BY <2>1 DEF Adds, FiledInv, Chosen
  <2>3. \A l \in selected[job[w]] : l \in SubLedgers /\ owner[l] = AccountOf(job[w])
    BY <1>3, <1>4 DEF FiledInv, Owned
  <2> QED  BY <2>1, <2>2, <2>3 DEF Adds, SubLedgersOf
<1>7. RowsFiledAsSelected'
  BY <1>3, <1>6 DEF FiledInv, RowsFiledAsSelected, AccountOf, SubLedgersOf
<1>8. \A i \in Imports : Owned(i)'
  BY <1>3 DEF FiledInv, Owned, AccountOf
<1> QED  BY <1>5, <1>7, <1>8 DEF FiledInv

LEMMA EditFiledInv ==
  ASSUME TypeInv, FateInv, FiledInv, PostedIsLate, EditStep
  PROVE  FiledInv'
<1>1. /\ UNCHANGED <<upc, request, wpc, job, todo>>
      /\ \/ /\ UNCHANGED <<removed, status, detail, selected, anchored, txns>>
            /\ \A l \in SubLedgers : Spares(l)
         \/ \E a \in Accounts : RemoveAccount(a)
  BY EditShape DEF uploadVars, workerVars
<1>2. /\ selected \in [Imports -> SUBSET SubLedgers] /\ txns \subseteq Transaction
      /\ owner \in [SubLedgers -> Accounts \cup {None, "deleted"}]
      /\ job \in [Workers -> Imports \cup {None}]
      /\ \A w \in Workers : wpc[w] = "brpop" <=> job[w] = None
  BY DEF TypeInv, TypeOK
<1>3. \A i \in Imports : upc[i] \notin {"idle", "rejected"} =>
                            request[i] # None /\ AccountOf(i) \in Accounts
  BY NoneAssumption DEF TypeInv, Admitted, Request, AccountOf
<1>4. CASE UNCHANGED <<removed, selected, txns>> /\ \A l \in SubLedgers : Spares(l)
  <2>1. \A i \in Imports : \A l \in selected[i] : owner'[l] = owner[l]
    BY <1>2, <1>3, <1>4, ConstantsAssumption DEF FiledInv, Owned, Spares
  <2>2. \A i \in Imports : Owned(i)'
    BY <1>1, <1>4, <2>1 DEF FiledInv, Owned, AccountOf
  <2>3. \A w \in Workers : Chosen(w)'
    BY <1>1, <1>4 DEF FiledInv, Chosen, Gone, AccountOf
  <2>4. RowsFiledAsSelected'
    <3>1. \A t \in txns : t.import \in Imports  BY <1>2 DEF Transaction
    <3> QED
      BY <1>1, <1>2, <1>4, <2>1, <3>1 DEF FiledInv, RowsFiledAsSelected, AccountOf, SubLedgersOf
  <2> QED  BY <2>2, <2>3, <2>4 DEF FiledInv
<1>5. ASSUME NEW a \in Accounts, RemoveAccount(a) PROVE FiledInv'
  <2>1. /\ removed' = removed \cup {a} /\ txns' = {t \in txns : t.account # a}
        /\ owner' = [l \in SubLedgers |-> IF owner[l] = a THEN "deleted" ELSE owner[l]]
        /\ selected' = [i \in Imports |-> IF request[i] # None /\ AccountOf(i) = a
                                          THEN {} ELSE selected[i]]
    BY <1>5 DEF RemoveAccount
  <2>2. ASSUME NEW i \in Imports PROVE Owned(i)'
    <3> SUFFICES ASSUME NEW l \in selected'[i]
                 PROVE  upc[i] \notin {"idle", "rejected"} /\ owner'[l] = AccountOf(i)
      BY <1>1 DEF Owned, AccountOf
    <3>1. l \in selected[i] /\ ~(request[i] # None /\ AccountOf(i) = a)
      BY <2>1
    <3>2. /\ upc[i] \notin {"idle", "rejected"} /\ owner[l] = AccountOf(i) /\ l \in SubLedgers
      BY <1>2, <3>1 DEF FiledInv, Owned
    <3>3. AccountOf(i) # a  BY <1>3, <3>1, <3>2
    <3> QED  BY <2>1, <3>2, <3>3
  <2>3. ASSUME NEW w \in Workers PROVE Chosen(w)'
    <3>1. CASE wpc[w] = "insert"
      <4>1. job[w] \in Imports /\ Chosen(w) /\ (Gone(job[w]) => Gone(job[w])')
        BY <1>1, <1>2, <2>1, <3>1 DEF FiledInv, Gone, AccountOf
      <4>2. selected'[job[w]] = selected[job[w]] \/ Gone(job[w])'
        BY <1>1, <2>1, <4>1 DEF Gone, AccountOf
      <4> QED  BY <1>1, <4>1, <4>2 DEF Chosen, Gone, AccountOf
    <3>2. CASE wpc[w] # "insert"  BY <1>1, <3>2 DEF Chosen
    <3> QED  BY <3>1, <3>2
  <2>4. ASSUME NEW t \in txns'
        PROVE  /\ t.account = AccountOf(t.import)
               /\ t.ledger # None => t.ledger \in selected'[t.import] /\ t.ledger \in SubLedgers
                                     /\ owner'[t.ledger] = t.account
    <3>1. /\ t \in txns /\ t.account # a /\ t.import \in Imports /\ t.account = AccountOf(t.import)
          /\ t.ledger # None => /\ t.ledger \in selected[t.import]
                                /\ t.ledger \in SubLedgers /\ owner[t.ledger] = t.account
      BY <1>2, <2>1 DEF Transaction, FiledInv, RowsFiledAsSelected, SubLedgersOf
    <3> QED  BY <2>1, <3>1
  <2>5. RowsFiledAsSelected'
    BY <1>1, <2>4 DEF RowsFiledAsSelected, AccountOf, SubLedgersOf
  <2> QED  BY <2>2, <2>3, <2>5 DEF FiledInv
<1> QED  BY <1>1, <1>4, <1>5

LEMMA NextFiledInv ==
  TypeInv /\ PostedIsLate /\ FateInv /\ FiledInv /\ [Next]_vars => FiledInv'
<1> SUFFICES ASSUME TypeInv, PostedIsLate, FateInv, FiledInv, [Next]_vars PROVE FiledInv'
  OBVIOUS
<1>1. CASE UNCHANGED vars
  <2>1. UNCHANGED <<upc, request, removed, owner, selected, txns, job, wpc, todo>>
    BY <1>1 DEF vars, accountVars, uploadVars, workerVars
  <2> QED
    BY <2>1 DEF FiledInv, Owned, Chosen, RowsFiledAsSelected, Gone, AccountOf, SubLedgersOf
<1> QED
  BY <1>1, UploadFiledInv, AdmitFiledInv, PopFiledInv, WorkerFiledInv, EditFiledInv DEF Next

(* A statement's row stays where its uploader meant it: on the account of  *)
(* the upload, under a sub-ledger that was selected and still belongs to   *)
(* that account, whatever is renamed, deleted or retried in the meantime.  *)
THEOREM RowsAreFiled == Spec => []RowsFiledAsSelected
<1>1. Init => FiledInv
  BY DEF Init, FiledInv, Owned, Chosen, RowsFiledAsSelected
<1>2. FiledInv => RowsFiledAsSelected  BY DEF FiledInv
<1> QED  BY <1>1, <1>2, FateHolds, NextFiledInv, PTL DEF Spec

-----------------------------------------------------------------------------
(* A worker on its way to mark_import_parsed holds, or has written, all of *)
(* one reading of the file: its flat rows, or a section for every          *)
(* sub-ledger selected.                                                    *)

FlatWhole(i) ==
    \E p \in PARSERS :
        /\ ParseOutcome[<<p, FileOf(i)>>] = "ok"
        /\ FlatRows[<<p, FileOf(i)>>] \subseteq HashesOn(AccountOf(i))

SectionsWhole(i) ==
    /\ ParseOutcome[<<MentorSacco, FileOf(i)>>] = "ok"
    /\ selected[i] # {}
    /\ \A l \in selected[i] : \E n \in Headings[FileOf(i)] :
          /\ SectionRows[<<FileOf(i), n>>] \subseteq HashesOn(AccountOf(i))
          /\ SectionRows[<<FileOf(i), n>>] # {} => l \in anchored[i]

Whole(i) == FlatWhole(i) \/ SectionsWhole(i)

(* The batch of ledger l with these rows still waits for its insert, or    *)
(* its rows are on the account and its opening balance is derived.         *)
Covered(w, l, rows) ==
    \/ [ledger |-> l, rows |-> rows] \in todo[w]
    \/ /\ rows \subseteq HashesOn(AccountOf(job[w]))
       /\ l # None /\ rows # {} => l \in openings[w]

FlatLeft(w) ==
    \E p \in PARSERS :
        /\ ParseOutcome[<<p, FileOf(job[w])>>] = "ok"
        /\ Covered(w, None, FlatRows[<<p, FileOf(job[w])>>])

SectionsLeft(w) ==
    /\ ParseOutcome[<<MentorSacco, FileOf(job[w])>>] = "ok"
    /\ selected[job[w]] # {}
    /\ \A l \in selected[job[w]] : \E n \in Headings[FileOf(job[w])] :
          Covered(w, l, SectionRows[<<FileOf(job[w]), n>>])

Progress(w) ==
    /\ wpc[w] = "selection" => ParseOutcome[<<MentorSacco, FileOf(job[w])>>] = "ok"
    /\ wpc[w] \in {"insert", "openings", "parsed"} /\ ~Gone(job[w]) =>
          FlatLeft(w) \/ SectionsLeft(w)
    /\ wpc[w] \in {"openings", "parsed"} => todo[w] = {}
    /\ wpc[w] = "parsed" /\ ~Gone(job[w]) =>
          openings[w] \cap selected[job[w]] \subseteq anchored[job[w]]

WholeInv ==
    /\ \A i \in Imports : status[i] = "parsed" => Whole(i)
    /\ \A w \in Workers : Progress(w)

(* As long as its account is there, an import past its upload keeps its    *)
(* request and its selection, and loses no row and no opening balance.     *)
Keeps(i) ==
    /\ request'[i] = request[i] /\ selected'[i] = selected[i]
    /\ HashesOn(AccountOf(i)) \subseteq HashesOn(AccountOf(i))'
    /\ anchored[i] \subseteq anchored'[i]
    /\ ~Gone(i)

LEMMA RowsKept ==
  ASSUME NEW i \in Imports, request'[i] = request[i],
         \A t \in txns : t.account = AccountOf(i) => t \in txns'
  PROVE  HashesOn(AccountOf(i)) \subseteq HashesOn(AccountOf(i))'
  BY DEF HashesOn, AccountOf

LEMMA NextKeeps ==
  ASSUME TypeInv, [Next]_vars, NEW i \in Imports, Released(i), ~Gone(i)'
  PROVE  Keeps(i)
<1>1. /\ upc \in [Imports -> UploadPc] /\ request \in [Imports -> Request \cup {None}]
      /\ selected \in [Imports -> SUBSET SubLedgers]
      /\ request[i] # None
  BY NoneAssumption DEF TypeInv, TypeOK, Admitted, Released
<1>2. CASE UNCHANGED <<request, removed, selected, anchored, txns>>
  BY <1>2, RowsKept DEF Keeps, Gone, AccountOf
<1>3. ASSUME NEW j \in Imports, UploadStep(j) \/ UploadFails(j) PROVE Keeps(i)
  <2>1. UploadTables(j)  BY <1>3, UploadShape
  <2>2. j # i  BY <2>1 DEF UploadTables, Uploading, Released
  <2>3. /\ UNCHANGED <<request, removed, anchored, txns>> /\ selected'[i] = selected[i]
    BY <1>1, <2>1, <2>2 DEF UploadTables, accountVars
  <2> QED  BY <2>3, RowsKept DEF Keeps, Gone, AccountOf
<1>4. ASSUME NEW j \in Imports, NEW a \in Accounts, NEW f \in Files,
             NEW S \in SUBSET SubLedgers, NEW opens \in BOOLEAN, AdmitUpload(j, a, f, S, opens)
      PROVE  Keeps(i)
  <2>1. /\ upc[j] = "idle" /\ \A k \in Imports \ {j} : request'[k] = request[k]
        /\ UNCHANGED <<removed, selected, anchored, txns>>
    BY <1>1, <1>4 DEF AdmitUpload, accountVars
  <2>2. request'[i] = request[i]  BY <2>1 DEF Released
  <2> QED  BY <2>1, <2>2, RowsKept DEF Keeps, Gone, AccountOf
<1>5. ASSUME NEW w \in Workers, Pop(w) PROVE Keeps(i)
  BY <1>2, <1>5 DEF Pop, accountVars, uploadVars
<1>6. ASSUME NEW w \in Workers, WorkerStep(w) \/ CallFails(w) \/ Crash(w), ~Pop(w)
      PROVE  Keeps(i)
  <2>1. WorkerTables(w)  BY <1>6, WorkerTablesHold
  <2>2. /\ UNCHANGED <<request, removed, selected>> /\ txns \subseteq txns'
        /\ anchored[i] \subseteq anchored'[i]
    BY <2>1 DEF WorkerTables, accountVars, uploadVars
  <2> QED  BY <2>2, RowsKept DEF Keeps, Gone, AccountOf
<1>7. ASSUME EditStep PROVE Keeps(i)
  <2>1. request' = request  BY <1>7, EditShape DEF uploadVars
  <2>2. ASSUME NEW a \in Accounts, RemoveAccount(a) PROVE Keeps(i)
    <3>1. /\ removed' = removed \cup {a} /\ txns' = {t \in txns : t.account # a}
          /\ selected' = [k \in Imports |-> IF request[k] # None /\ AccountOf(k) = a
                                            THEN {} ELSE selected[k]]
          /\ anchored' = [k \in Imports |-> IF request[k] # None /\ AccountOf(k) = a
                                            THEN {} ELSE anchored[k]]
      BY <2>2 DEF RemoveAccount
    <3>2. AccountOf(i) # a /\ ~Gone(i)  BY <2>1, <3>1 DEF Gone, AccountOf
    <3> QED  BY <2>1, <3>1, <3>2, RowsKept DEF Keeps
  <2> QED  BY <1>2, <1>7, <2>1, <2>2, EditShape
<1>8. CASE UNCHANGED vars
  BY <1>2, <1>8 DEF vars, accountVars, uploadVars
<1> QED  BY <1>3, <1>4, <1>5, <1>6, <1>7, <1>8 DEF Next

LEMMA WholeKept ==
  ASSUME NEW i \in Imports, Keeps(i), Whole(i)
  PROVE  Whole(i)'
<1>1. FileOf(i)' = FileOf(i) /\ selected'[i] = selected[i]
  BY DEF Keeps, FileOf
<1>2. HashesOn(AccountOf(i)) \subseteq HashesOn(AccountOf(i))' /\ anchored[i] \subseteq anchored'[i]
  BY DEF Keeps
<1>3. CASE FlatWhole(i)  BY <1>1, <1>2, <1>3 DEF FlatWhole, Whole
<1>4. CASE SectionsWhole(i)  BY <1>1, <1>2, <1>4 DEF SectionsWhole, Whole
<1> QED  BY <1>3, <1>4 DEF Whole

LEMMA RequestKept ==
  ASSUME TypeInv, [Next]_vars, NEW i \in Imports, Released(i)
  PROVE  request'[i] = request[i]
<1>1. ASSUME NEW j \in Imports, NEW a \in Accounts, NEW f \in Files,
             NEW S \in SUBSET SubLedgers, NEW opens \in BOOLEAN, AdmitUpload(j, a, f, S, opens)
      PROVE  request'[i] = request[i]
  BY <1>1 DEF AdmitUpload, Released, TypeInv, TypeOK
<1>2. ASSUME NEW j \in Imports, UploadStep(j) \/ UploadFails(j) PROVE request' = request
  BY <1>2, UploadShape DEF UploadTables
<1>3. ASSUME NEW w \in Workers, WorkerStep(w) \/ CallFails(w) \/ Crash(w)
      PROVE  request' = request
  BY <1>3, WorkerShape DEF Pop, uploadVars
<1>4. EditStep \/ UNCHANGED vars => request' = request
  BY EditShape DEF vars, uploadVars
<1> QED  BY <1>1, <1>2, <1>3, <1>4 DEF Next

(* A worker that is not moved keeps what it has.                           *)
LEMMA ProgressKept ==
  ASSUME TypeInv, [Next]_vars, NEW w \in Workers, Progress(w),
         wpc'[w] = wpc[w], job'[w] = job[w], todo'[w] = todo[w], openings'[w] = openings[w]
  PROVE  Progress(w)'
<1>1. CASE wpc[w] = "brpop"  BY <1>1 DEF Progress
<1>2. CASE wpc[w] # "brpop" /\ Gone(job[w])'
  <2>1. job[w] \in Imports /\ Released(job[w])  BY <1>2, JobFacts
  <2>2. wpc[w] = "selection" => FileOf(job[w])' = FileOf(job[w])
    BY <2>1, RequestKept DEF FileOf
  <2> QED  BY <1>2, <2>2 DEF Progress, Gone, AccountOf, FileOf
<1>3. CASE wpc[w] # "brpop" /\ ~Gone(job[w])'
  <2>1. job[w] \in Imports /\ Keeps(job[w])  BY <1>3, JobFacts, NextKeeps
  <2>2. /\ FileOf(job[w])' = FileOf(job[w]) /\ AccountOf(job[w])' = AccountOf(job[w])
        /\ selected'[job[w]] = selected[job[w]] /\ anchored[job[w]] \subseteq anchored'[job[w]]
        /\ HashesOn(AccountOf(job[w])) \subseteq HashesOn(AccountOf(job[w]))'
        /\ ~Gone(job[w])
    BY <2>1 DEF Keeps, FileOf, AccountOf
  <2>3. \A l, rows : Covered(w, l, rows) => Covered(w, l, rows)'
    BY <2>2 DEF Covered
  <2>4. FlatLeft(w) => FlatLeft(w)'  BY <2>2, <2>3 DEF FlatLeft
  <2>5. SectionsLeft(w) => SectionsLeft(w)'  BY <2>2, <2>3 DEF SectionsLeft
  <2> QED  BY <2>2, <2>4, <2>5 DEF Progress
<1> QED  BY <1>2, <1>1, <1>3

(* The batch that is inserted is on the account then, with the rows it had *)
(* in common with earlier ones; the others still wait.                     *)
LEMMA InsertCovers ==
  ASSUME TypeInv, NEW w \in Workers, NEW batch \in todo[w], Inserts(w, batch),
         job'[w] = job[w], Keeps(job[w]), NEW l, NEW rows, Covered(w, l, rows)
  PROVE  Covered(w, l, rows)'
<1>1. /\ txns' = txns \cup NewRows(job[w], batch) /\ todo'[w] = todo[w] \ {batch}
      /\ openings[w] \subseteq openings'[w]
      /\ batch.ledger # None /\ batch.rows # {} => batch.ledger \in openings'[w]
  BY DEF Inserts
<1>2. /\ AccountOf(job[w])' = AccountOf(job[w])
      /\ HashesOn(AccountOf(job[w])) \subseteq HashesOn(AccountOf(job[w]))'
  BY DEF Keeps, AccountOf
<1>3. batch.rows \subseteq HashesOn(AccountOf(job[w]))'
  <2> SUFFICES ASSUME NEW h \in batch.rows, h \notin HashesOn(AccountOf(job[w]))
               PROVE  h \in HashesOn(AccountOf(job[w]))'
    BY <1>2
  <2> DEFINE t == [account |-> AccountOf(job[w]), hash |-> h, import |-> job[w],
                   ledger |-> batch.ledger]
  <2>1. t \in txns'  BY <1>1 DEF NewRows
  <2>2. t.account = AccountOf(job[w])' /\ t.hash = h  BY <1>2
  <2> QED  BY <2>1, <2>2 DEF HashesOn
<1>4. CASE [ledger |-> l, rows |-> rows] = batch
  <2>1. batch.ledger = l /\ batch.rows = rows  BY <1>4
  <2> QED  BY <1>1, <1>2, <1>3, <2>1 DEF Covered
<1>5. CASE [ledger |-> l, rows |-> rows] \in todo[w] \ {batch}
  BY <1>1, <1>5 DEF Covered
<1>6. CASE /\ rows \subseteq HashesOn(AccountOf(job[w]))
           /\ l # None /\ rows # {} => l \in openings[w]
  BY <1>1, <1>2, <1>6 DEF Covered
<1> QED  BY <1>4, <1>5, <1>6 DEF Covered

LEMMA WorkerProgress ==
  ASSUME TypeInv, [Next]_vars, NEW w \in Workers, Progress(w),
         WorkerStep(w) \/ CallFails(w) \/ Crash(w)
  PROVE  Progress(w)'
<1>1. CASE wpc'[w] \notin Phases  BY <1>1 DEF Progress, Phases
<1> SUFFICES ASSUME wpc'[w] \in Phases PROVE Progress(w)'
  BY <1>1
<1>2. /\ job'[w] = job[w] /\ job[w] \in Imports /\ Released(job[w])
      /\ UNCHANGED <<request, selected, removed>>
  <2>1. /\ wpc \in [Workers -> WorkerPc] /\ job \in [Workers -> Imports \cup {None}]
    BY DEF TypeInv, TypeOK
  <2>2. ~Pop(w)  BY <2>1 DEF Pop, Phases
  <2>3. PICK n : JobStep(w, n)  BY <2>2, WorkerShape
  <2>4. wpc[w] # "brpop" /\ UNCHANGED <<request, removed>>
    BY <2>2, WorkerShape DEF accountVars, uploadVars
  <2>5. selected' = selected  BY <2>2, WorkerTablesHold DEF WorkerTables
  <2>6. job'[w] = job[w]  BY <2>1, <2>3 DEF JobStep, Phases
  <2> QED  BY <2>4, <2>5, <2>6, JobFacts
<1>3. /\ FileOf(job[w])' = FileOf(job[w]) /\ (Gone(job[w])' <=> Gone(job[w]))
      /\ selected'[job[w]] = selected[job[w]]
  BY <1>2 DEF FileOf, Gone, AccountOf
<1>4. ~Gone(job[w]) => Keeps(job[w])  BY <1>2, <1>3, NextKeeps
<1>5. CASE Chooses(w)  BY <1>2, <1>3, <1>5 DEF Chooses, Progress
<1>6. CASE StartsFlat(w)
  <2>1. wpc'[w] = "insert"  BY <1>6 DEF StartsFlat
  <2>2. FlatLeft(w)'  BY <1>2, <1>3, <1>6 DEF StartsFlat, FlatLeft, Covered
  <2> QED  BY <2>1, <2>2 DEF Progress
<1>7. CASE StartsSections(w)
  <2>0. PICK f : f = FileOf(job[w])  OBVIOUS
  <2>1. /\ wpc'[w] = "insert" /\ ParseOutcome[<<MentorSacco, f>>] = "ok"
        /\ selected[job[w]] # {} /\ \A l \in selected[job[w]] : name[l] \in Headings[f]
        /\ todo'[w] = {[ledger |-> l, rows |-> SectionRows[<<f, name[l]>>]] :
                          l \in selected[job[w]]}
    BY <1>7, <2>0 DEF StartsSections, Progress
  <2>2. ASSUME NEW l \in selected[job[w]]
        PROVE  \E n \in Headings[f] : Covered(w, l, SectionRows[<<f, n>>])'
    <3>1. PICK n \in Headings[f] : [ledger |-> l, rows |-> SectionRows[<<f, n>>]] \in todo'[w]
      BY <2>1
    <3>2. Covered(w, l, SectionRows[<<f, n>>])'  BY <3>1 DEF Covered
    <3> QED  BY <3>2
  <2>3. SectionsLeft(w)'  BY <1>2, <1>3, <2>0, <2>1, <2>2 DEF SectionsLeft
  <2> QED  BY <2>1, <2>3 DEF Progress
<1>8. ASSUME NEW batch \in todo[w], Inserts(w, batch) PROVE Progress(w)'
  <2>1. /\ wpc[w] = "insert" /\ wpc'[w] \in {"insert", "openings", "parsed"}
        /\ wpc'[w] # "insert" => todo'[w] = {}
        /\ wpc'[w] = "parsed" => openings'[w] = {}
    BY <1>8 DEF Inserts
  <2>2. CASE Gone(job[w])  BY <1>2, <1>3, <2>1, <2>2 DEF Progress
  <2>3. CASE ~Gone(job[w])
    <3>1. \A l, rows : Covered(w, l, rows) => Covered(w, l, rows)'
      BY <1>2, <1>4, <1>8, <2>3, InsertCovers
    <3>2. FlatLeft(w) => FlatLeft(w)'  BY <1>2, <1>3, <3>1 DEF FlatLeft
    <3>3. SectionsLeft(w) => SectionsLeft(w)'  BY <1>2, <1>3, <3>1 DEF SectionsLeft
    <3> QED  BY <2>1, <2>3, <3>2, <3>3 DEF Progress
  <2> QED  BY <2>2, <2>3
<1>9. CASE Anchors(w)
  <2>1. /\ wpc[w] = "openings" /\ wpc'[w] = "parsed"
        /\ todo'[w] = todo[w] /\ openings'[w] = openings[w]
        /\ openings[w] \cap selected[job[w]] \subseteq anchored'[job[w]]
    BY <1>9 DEF Anchors
  <2>2. CASE Gone(job[w])  BY <1>2, <1>3, <2>1, <2>2 DEF Progress
  <2>3. CASE ~Gone(job[w])
    <3>1. /\ AccountOf(job[w])' = AccountOf(job[w])
          /\ HashesOn(AccountOf(job[w])) \subseteq HashesOn(AccountOf(job[w]))'
      BY <1>2, <1>4, <2>3 DEF Keeps, AccountOf
    <3>2. \A l, rows : Covered(w, l, rows) => Covered(w, l, rows)'
      BY <1>2, <2>1, <3>1 DEF Covered
    <3>3. FlatLeft(w) => FlatLeft(w)'  BY <1>2, <1>3, <3>2 DEF FlatLeft
    <3>4. SectionsLeft(w) => SectionsLeft(w)'  BY <1>2, <1>3, <3>2 DEF SectionsLeft
    <3> QED  BY <1>2, <1>3, <2>1, <2>3, <3>3, <3>4 DEF Progress
  <2> QED  BY <2>2, <2>3
<1> QED  BY <1>5, <1>6, <1>7, <1>8, <1>9, WorkerPhases

(* mark_import_parsed is reached with nothing left to insert.              *)
LEMMA ParsedIsWhole ==
  ASSUME TypeInv, FateInv, NEW w \in Workers, Progress(w), wpc[w] = "parsed",
         ~Gone(job[w])
  PROVE  Whole(job[w])
<1>1. todo[w] = {} /\ openings[w] \cap selected[job[w]] \subseteq anchored[job[w]]
  BY DEF Progress
<1>2. \A l, rows : Covered(w, l, rows) =>
         /\ rows \subseteq HashesOn(AccountOf(job[w]))
         /\ l # None /\ rows # {} => l \in openings[w]
  BY <1>1 DEF Covered
<1>3. CASE FlatLeft(w)  BY <1>2, <1>3 DEF FlatLeft, FlatWhole, Whole
<1>4. CASE SectionsLeft(w)
  <2>1. \A l \in selected[job[w]] : l # None
    BY JobFacts, ConstantsAssumption DEF TypeInv, TypeOK
  <2> QED  BY <1>1, <1>2, <1>4, <2>1 DEF SectionsLeft, SectionsWhole, Whole
<1> QED  BY <1>3, <1>4 DEF Progress

(* Only mark_import_parsed reports an import as parsed.                    *)
LEMMA NewlyParsed ==
  ASSUME TypeInv, [Next]_vars, NEW i \in Imports, status[i] # "parsed", status'[i] = "parsed"
  PROVE  \E w \in Workers : wpc[w] = "parsed" /\ job[w] = i
<1>1. status \in [Imports -> {"absent", "pending", "parsed", "failed"}]
  BY DEF TypeInv, TypeOK
<1>2. status' # status  OBVIOUS
<1>3. ASSUME NEW j \in Imports, UploadStep(j) \/ UploadFails(j) PROVE FALSE
  BY <1>1, <1>3, UploadShape DEF UploadTables
<1>4. ASSUME EditStep PROVE FALSE
  <2>1. PICK a \in Accounts : RemoveAccount(a)  BY <1>2, <1>4, EditShape
  <2> QED  BY <1>1, <2>1 DEF RemoveAccount
<1>5. ASSUME NEW w \in Workers, WorkerStep(w) \/ CallFails(w) \/ Crash(w)
      PROVE  wpc[w] = "parsed" /\ job[w] = i
  <2>1. CASE MarkParsed(w)  BY <1>1, <2>1 DEF MarkParsed
  <2>2. CASE MarkFailed(w)  BY <1>1, <2>2 DEF MarkFailed
  <2>3. CASE ~MarkParsed(w) /\ ~MarkFailed(w)
    <3>1. status' = status
      BY <1>5, <2>3 DEF WorkerStep, Pop, ReadImport, FetchObject, Parse, ResolveSections,
                        InsertTransactions, SetOpeningBalances, CallFails, Crash
    <3> QED  BY <1>2, <3>1
  <2> QED  BY <2>1, <2>2, <2>3
<1>6. CASE UNCHANGED vars  BY <1>2, <1>6 DEF vars
<1>7. ASSUME NEW j \in Imports, NEW a \in Accounts, NEW f \in Files,
             NEW S \in SUBSET SubLedgers, NEW opens \in BOOLEAN, AdmitUpload(j, a, f, S, opens)
      PROVE  FALSE
  BY <1>2, <1>7 DEF AdmitUpload
<1> QED  BY <1>3, <1>4, <1>5, <1>6, <1>7 DEF Next

LEMMA NextWholeInv ==
  TypeInv /\ FateInv /\ FateInv' /\ WholeInv /\ [Next]_vars => WholeInv'
<1> SUFFICES ASSUME TypeInv, FateInv, FateInv', WholeInv, [Next]_vars PROVE WholeInv'
  OBVIOUS
<1>1. ASSUME NEW i \in Imports, status'[i] = "parsed" PROVE Whole(i)'
  <2>1. ~Gone(i)'  BY <1>1 DEF FateInv, Fate
  <2>2. CASE status[i] = "parsed"
    <3>1. Released(i)
      BY <2>2 DEF FateInv, Fate, TypeInv, TypeOK, UploadPc, Uploading, Released
    <3> QED  BY <2>1, <2>2, <3>1, NextKeeps, WholeKept DEF WholeInv
  <2>3. CASE status[i] # "parsed"
    <3>1. PICK w \in Workers : wpc[w] = "parsed" /\ job[w] = i
      BY <1>1, <2>3, NewlyParsed
    <3>2. Keeps(i)  BY <2>1, <3>1, JobFacts, NextKeeps
    <3>3. Whole(i)  BY <3>1, <3>2, ParsedIsWhole DEF WholeInv, Keeps
    <3> QED  BY <3>2, <3>3, WholeKept
  <2> QED  BY <2>2, <2>3
<1>2. ASSUME NEW w \in Workers PROVE Progress(w)'
  <2>1. Progress(w)  BY DEF WholeInv
  <2>2. ASSUME NEW v \in Workers, WorkerStep(v) \/ CallFails(v) \/ Crash(v)
        PROVE  Progress(w)'
    <3>1. CASE v = w  BY <2>1, <2>2, <3>1, WorkerProgress
    <3>2. CASE v # w  BY <2>1, <2>2, <3>2, OtherWorkers, ProgressKept
    <3> QED  BY <3>1, <3>2
  <2>3. CASE UNCHANGED workerVars
    BY <2>1, <2>3, ProgressKept DEF workerVars
  <2>4. ASSUME NEW j \in Imports, UploadStep(j) \/ UploadFails(j)
        PROVE  UNCHANGED workerVars
    BY <2>4, UploadShape DEF UploadTables
  <2>5. ASSUME NEW j \in Imports, NEW a \in Accounts, NEW f \in Files,
               NEW S \in SUBSET SubLedgers, NEW opens \in BOOLEAN, AdmitUpload(j, a, f, S, opens)
        PROVE  UNCHANGED workerVars
    BY <2>5 DEF AdmitUpload
  <2>6. EditStep \/ UNCHANGED vars => UNCHANGED workerVars
    BY EditShape DEF vars
  <2> QED  BY <2>2, <2>3, <2>4, <2>5, <2>6 DEF Next
<1> QED  BY <1>1, <1>2 DEF WholeInv

(* An import reported as parsed has all its file holds for it on the       *)
(* account, with the opening balances, however its worker was interleaved  *)
(* with others, and whatever was renamed or switched meanwhile.            *)
THEOREM ParsedImportsAreComplete == Spec => []ParsedIsComplete
<1>1. Init => WholeInv  BY DEF Init, WholeInv, Progress
<1>2. WholeInv => ParsedIsComplete
  BY DEF WholeInv, Whole, FlatWhole, SectionsWhole, ParsedIsComplete
<1> QED  BY <1>1, <1>2, FateHolds, NextWholeInv, PTL DEF Spec
=============================================================================
