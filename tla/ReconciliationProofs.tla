------------------------ MODULE ReconciliationProofs ------------------------
(***************************************************************************)
(* Proofs about Reconciliation: its types, that a bulk request reconciles  *)
(* what it names, and that only a stale check over-allocates.              *)
(***************************************************************************)
EXTENDS Reconciliation, SetSums, TLAPS

(* A request that was admitted has a body. *)
BodyKnown ==
    \A r \in Requests : pc[r] \notin {"idle", "rejected"} => body[r] \in SplitBody \cup BulkBody

(* generate_budget_alerts looks at budgets for a group, and what it is     *)
(* about to insert is an alert.                                            *)
GroupKnown == \A r \in Requests : found[r] # {} => group[r] \in Categories \X Days
AlertKnown == \A r \in Requests : pc[r] = "notify" => alert[r] \in Alert

(* What a request is about to insert fits what it read ... *)
WithinSeen ==
    \A r \in Requests : pc[r] = "insert" =>
        \A t \in Txns : writes[r].total[t] = 0 \/ seen[r][t] + writes[r].total[t] <= Amount[t]

(* ... and, for a bulk request, completes each transaction it names, which *)
(* stays complete afterwards.                                              *)
IsBulk(r) == body[r] \in BulkBody
BulkCompletes ==
    \A r \in Requests : pc[r] = "insert" /\ IsBulk(r) =>
        \A t \in DOMAIN body[r].pick : allocated[t] + writes[r].total[t] >= Amount[t]
BulkCompleted ==
    \A r \in Requests : pc[r] \in {"alerts", "notify", "reread", "done"} /\ IsBulk(r) =>
        \A t \in DOMAIN body[r].pick : allocated[t] >= Amount[t]

Inv == TypeOK /\ BodyKnown /\ GroupKnown /\ AlertKnown

SumsInv == WithinSeen /\ BulkCompletes /\ BulkCompleted

-----------------------------------------------------------------------------
(* The state of a budget: always one of four, and never lower for more     *)
(* consumption.                                                            *)
LEMMA ExpenseStateType ==
  ASSUME NEW l, NEW c, NEW near
  PROVE  ExpenseState(l, c, near) \in {"ok", "near", "at", "over"}
  BY DEF ExpenseState

(* A budget's state never improves as allocations accumulate, whatever its *)
(* limit, a zero limit included: the reason why an alert stays true.       *)
THEOREM StateNeverImproves ==
  ASSUME NEW l \in Nat, NEW c \in Nat, NEW d \in Nat, c <= d, NEW near \in 1..99
  PROVE  StateRank[ExpenseState(l, c, near)] <= StateRank[ExpenseState(l, d, near)]
<1>1. CASE l = 0
  <2>1. /\ 100 * 0 >= near * 1 <=> FALSE
        /\ 2 > 1 /\ ~(0 > 1) /\ 0 # 1
    OBVIOUS
  <2>2. Ratio(l, c).num \in {0, 2} /\ Ratio(l, c).den = 1 /\ (Ratio(l, c).num = 2 => c > 0)
    BY <1>1 DEF Ratio
  <2>3. Ratio(l, d).den = 1 /\ (IF d > 0 THEN Ratio(l, d).num = 2 ELSE Ratio(l, d).num = 0)
    BY <1>1 DEF Ratio
  <2>4. ExpenseState(l, c, near) = IF Ratio(l, c).num = 2 THEN "over" ELSE "ok"
    BY <2>1, <2>2 DEF ExpenseState
  <2>5. ExpenseState(l, d, near) = IF d > 0 THEN "over" ELSE "ok"
    BY <2>1, <2>3 DEF ExpenseState
  <2> QED  BY <2>2, <2>4, <2>5 DEF StateRank
<1>2. CASE l > 0
  <2> DEFINE S(x) == IF x > l THEN "over" ELSE IF x = l THEN "at"
                     ELSE IF 100 * x >= near * l THEN "near" ELSE "ok"
  <2>1. \A x \in Nat : ExpenseState(l, x, near) = S(x)
    BY <1>2 DEF ExpenseState, Ratio
  <2>2. PICK m \in Nat : m = near * l  OBVIOUS
  <2>3. StateRank[S(c)] <= StateRank[S(d)]  BY <2>2 DEF StateRank
  <2> QED  BY <2>1, <2>3
<1> QED  BY <1>1, <1>2

-----------------------------------------------------------------------------
(* Type correctness. *)

LEMMA NoWritesType == NoWrites \in Writes
  BY DEF NoWrites, Writes

LEMMA InitInv == Init => Inv /\ SumsInv
<1> SUFFICES ASSUME Init PROVE Inv /\ SumsInv
  OBVIOUS
<1>1. TypeOK  BY NoWritesType, ConstantsAssumption DEF Init, TypeOK, Pc
<1>2. BodyKnown /\ GroupKnown /\ AlertKnown
  BY DEF Init, BodyKnown, GroupKnown, AlertKnown, Busy
<1>3. SumsInv  BY DEF Init, SumsInv, WithinSeen, BulkCompletes, BulkCompleted
<1> QED  BY <1>1, <1>2, <1>3 DEF Inv

LEMMA RemainingType ==
  ASSUME TypeOK, NEW t \in Txns
  PROVE  /\ Remaining(t) \in Nat /\ allocated[t] \in Nat /\ Amount[t] \in Nat \ {0}
         /\ allocated[t] + Remaining(t) >= Amount[t]
         /\ Remaining(t) = 0 \/ allocated[t] + Remaining(t) = Amount[t]
  BY ConstantsAssumption DEF TypeOK, Remaining

LEMMA WritesTypes ==
  ASSUME TypeOK
  PROVE  /\ \A t \in Txns, split \in Splits : SplitWrites(t, split) \in Writes
         /\ \A pick : BulkWrites(pick) \in Writes
<1>1. ASSUME NEW t \in Txns, NEW split \in Splits PROVE SplitWrites(t, split) \in Writes
  <2>1. split.total \in Nat /\ split.share \in [Categories -> Nat]
    BY ConstantsAssumption
  <2> QED  BY <2>1 DEF SplitWrites, Writes
<1>2. ASSUME NEW pick PROVE BulkWrites(pick) \in Writes
  BY RemainingType DEF BulkWrites, Writes
<1> QED  BY <1>1, <1>2

(* A step that moves one request on and changes no sum: what is known of   *)
(* the others stays, what is known of this one follows from where it is.   *)
LEMMA StepFrame ==
  ASSUME Inv, SumsInv, NEW r \in Requests, NEW p \in Pc, pc' = [pc EXCEPT ![r] = p],
         \A q \in Requests \ {r} :
            /\ body'[q] = body[q] /\ found'[q] = found[q] /\ group'[q] = group[q]
            /\ alert'[q] = alert[q] /\ seen'[q] = seen[q] /\ writes'[q] = writes[q],
         allocated' = allocated,
         p \notin {"idle", "rejected"} => body'[r] \in SplitBody \cup BulkBody,
         found'[r] # {} => group'[r] \in Categories \X Days,
         p = "notify" => alert'[r] \in Alert,
         p = "insert" => \A t \in Txns :
            writes'[r].total[t] = 0 \/ seen'[r][t] + writes'[r].total[t] <= Amount[t],
         p = "insert" /\ body'[r] \in BulkBody => \A t \in DOMAIN body'[r].pick :
            allocated[t] + writes'[r].total[t] >= Amount[t],
         p \in {"alerts", "notify", "reread", "done"} /\ body'[r] \in BulkBody =>
            \A t \in DOMAIN body'[r].pick : allocated[t] >= Amount[t]
  PROVE  BodyKnown' /\ GroupKnown' /\ AlertKnown' /\ SumsInv'
<1>1. pc \in [Requests -> Pc] /\ pc'[r] = p /\ \A q \in Requests \ {r} : pc'[q] = pc[q]
  BY DEF Inv, TypeOK
<1>2. BodyKnown'  BY <1>1 DEF Inv, BodyKnown
<1>3. GroupKnown'  BY <1>1 DEF Inv, GroupKnown
<1>4. AlertKnown'  BY <1>1 DEF Inv, AlertKnown
<1>5. WithinSeen'  BY <1>1 DEF SumsInv, WithinSeen
<1>6. BulkCompletes'  BY <1>1 DEF SumsInv, BulkCompletes, IsBulk
<1>7. BulkCompleted'  BY <1>1 DEF SumsInv, BulkCompleted, IsBulk
<1> QED  BY <1>2, <1>3, <1>4, <1>5, <1>6, <1>7 DEF SumsInv

LEMMA PostInv ==
  ASSUME Inv, SumsInv, NEW r \in Requests,
         \/ \E t \in Txns, split \in Splits : PostSplits(r, t, split)
         \/ \E pick \in Picks : PostBulk(r, pick)
  PROVE  Inv' /\ SumsInv'
<1>1. TypeOK  BY DEF Inv
<1>2. PICK p \in {"read", "rejected"} :
        /\ pc' = [pc EXCEPT ![r] = p]
        /\ \/ p = "rejected" /\ body' = body
           \/ \E x \in SplitBody \cup BulkBody : body' = [body EXCEPT ![r] = x]
  <2>1. ASSUME NEW t \in Txns, NEW split \in Splits, PostSplits(r, t, split)
        PROVE  \E p \in {"read", "rejected"} :
                 /\ pc' = [pc EXCEPT ![r] = p]
                 /\ \/ p = "rejected" /\ body' = body
                    \/ \E x \in SplitBody \cup BulkBody : body' = [body EXCEPT ![r] = x]
    <3>1. [kind |-> "splits", txn |-> t, split |-> split] \in SplitBody  BY DEF SplitBody
    <3> QED  BY <2>1, <3>1 DEF PostSplits, Go
  <2>2. ASSUME NEW pick \in Picks, PostBulk(r, pick)
        PROVE  \E p \in {"read", "rejected"} :
                 /\ pc' = [pc EXCEPT ![r] = p]
                 /\ \/ p = "rejected" /\ body' = body
                    \/ \E x \in SplitBody \cup BulkBody : body' = [body EXCEPT ![r] = x]
    <3>1. [kind |-> "bulk", pick |-> pick] \in BulkBody  BY DEF BulkBody, Picks
    <3> QED  BY <2>2, <3>1 DEF PostBulk, Go
  <2> QED  BY <2>1, <2>2
<1>3. pc[r] = "idle"
      /\ UNCHANGED <<allocated, spent, limit, notes, seen, writes, todo, group, found, alert,
                     faults, edits>>
  BY DEF PostSplits, PostBulk
<1>4. p \in Pc /\ pc' \in [Requests -> Pc]
  BY <1>1, <1>2 DEF TypeOK, Pc, Busy
<1>5. /\ body' \in [Requests -> SplitBody \cup BulkBody \cup {None}]
      /\ \A q \in Requests \ {r} : body'[q] = body[q]
      /\ p = "read" => body'[r] \in SplitBody \cup BulkBody
  BY <1>1, <1>2 DEF TypeOK
<1>6. TypeOK'  BY <1>1, <1>3, <1>4, <1>5 DEF TypeOK
<1>7. p \notin {"idle", "rejected"} => body'[r] \in SplitBody \cup BulkBody
  BY <1>2, <1>5
<1>8. found'[r] # {} => group'[r] \in Categories \X Days
  BY <1>3 DEF Inv, GroupKnown
<1>9. BodyKnown' /\ GroupKnown' /\ AlertKnown' /\ SumsInv'
  BY <1>2, <1>3, <1>4, <1>5, <1>7, <1>8, StepFrame
<1> QED  BY <1>6, <1>9 DEF Inv

LEMMA ReadInv ==
  ASSUME Inv, SumsInv, NEW r \in Requests, ReadSplit(r) \/ ReadBulk(r)
  PROVE  Inv' /\ SumsInv'
<1>1. TypeOK /\ pc[r] = "read" /\ body[r] \in SplitBody \cup BulkBody
  BY DEF Inv, BodyKnown, Busy, ReadSplit, ReadBulk
<1>2. /\ seen' = [seen EXCEPT ![r] = allocated] /\ seen'[r] = allocated
      /\ UNCHANGED <<allocated, spent, limit, notes, body, todo, group, found, alert, faults,
                     edits>>
  BY <1>1 DEF TypeOK, ReadSplit, ReadBulk
<1>3. \E p \in {"rejected", "done", "insert"} :
        /\ pc' = [pc EXCEPT ![r] = p]
        /\ writes' \in [Requests -> Writes]
        /\ \A q \in Requests \ {r} : writes'[q] = writes[q]
        /\ p = "insert" => \A t \in Txns :
              writes'[r].total[t] = 0 \/ allocated[t] + writes'[r].total[t] <= Amount[t]
        /\ p = "insert" /\ body[r] \in BulkBody => \A t \in DOMAIN body[r].pick :
              allocated[t] + writes'[r].total[t] >= Amount[t]
        /\ p = "done" => /\ body[r] \in BulkBody
                         /\ \A t \in DOMAIN body[r].pick : allocated[t] >= Amount[t]
  <2>1. CASE ReadSplit(r)
    <3> DEFINE t == body[r].txn
               split == body[r].split
    <3>1. body[r] \notin BulkBody /\ t \in Txns /\ split \in Splits
      BY <1>1, <2>1 DEF ReadSplit, SplitBody, BulkBody
    <3>2. CASE Exceeds(t, split.total)
      <4>1. pc' = [pc EXCEPT ![r] = "rejected"] /\ writes' = writes
        BY <2>1, <3>2 DEF ReadSplit, Go
      <4> QED  BY <1>1, <4>1 DEF TypeOK
    <3>3. CASE ~Exceeds(t, split.total)
      <4>1. /\ pc' = [pc EXCEPT ![r] = "insert"]
            /\ writes' = [writes EXCEPT ![r] = SplitWrites(t, split)]
        BY <2>1, <3>3 DEF ReadSplit, Go
      <4>2. SplitWrites(t, split) \in Writes  BY <1>1, <3>1, WritesTypes
      <4>3. split.total \in Nat /\ allocated[t] \in Nat /\ Amount[t] \in Nat
        BY <1>1, <3>1, ConstantsAssumption DEF TypeOK
      <4>4. allocated[t] + split.total <= Amount[t]  BY <3>3, <4>3 DEF Exceeds
      <4>5. \A u \in Txns : SplitWrites(t, split).total[u] = IF u = t THEN split.total ELSE 0
        BY DEF SplitWrites
      <4>6. writes' \in [Requests -> Writes] /\ writes'[r] = SplitWrites(t, split)
            /\ \A q \in Requests \ {r} : writes'[q] = writes[q]
        BY <1>1, <4>1, <4>2 DEF TypeOK
      <4> HIDE DEF t, split
      <4> QED  BY <3>1, <4>1, <4>4, <4>5, <4>6
    <3> QED  BY <3>2, <3>3
  <2>2. CASE ReadBulk(r)
    <3> DEFINE pick == body[r].pick
    <3>1. body[r] \in BulkBody  BY <1>1, <2>2 DEF ReadBulk, SplitBody, BulkBody
    <3>2. DOMAIN pick \subseteq Txns
      <4>1. \E S \in SUBSET Txns : pick \in [S -> Categories \cup {None}]
        BY <3>1 DEF BulkBody
      <4> QED  BY <4>1
    <3>3. CASE \A t \in DOMAIN pick : Remaining(t) = 0
      <4>1. pc' = [pc EXCEPT ![r] = "done"] /\ writes' = writes
        BY <2>2, <3>3 DEF ReadBulk, Go
      <4>2. \A t \in DOMAIN pick : allocated[t] >= Amount[t]
        <5> SUFFICES ASSUME NEW t \in DOMAIN pick PROVE allocated[t] >= Amount[t]
          OBVIOUS
        <5>1. t \in Txns /\ Remaining(t) = 0  BY <3>2, <3>3
        <5>2. /\ allocated[t] \in Nat /\ Amount[t] \in Nat
              /\ allocated[t] + Remaining(t) >= Amount[t]
          BY <1>1, <5>1, RemainingType
        <5> QED  BY <5>1, <5>2
      <4> QED  BY <1>1, <3>1, <4>1, <4>2 DEF TypeOK
    <3>4. CASE ~\A t \in DOMAIN pick : Remaining(t) = 0
      <4>1. /\ pc' = [pc EXCEPT ![r] = "insert"]
            /\ writes' = [writes EXCEPT ![r] = BulkWrites(pick)]
        BY <2>2, <3>4 DEF ReadBulk, Go
      <4>2. BulkWrites(pick) \in Writes  BY <1>1, WritesTypes
      <4>3. \A t \in Txns : BulkWrites(pick).total[t] =
                               IF t \in DOMAIN pick THEN Remaining(t) ELSE 0
        BY DEF BulkWrites
      <4>4. writes' \in [Requests -> Writes] /\ writes'[r] = BulkWrites(pick)
            /\ \A q \in Requests \ {r} : writes'[q] = writes[q]
        BY <1>1, <4>1, <4>2 DEF TypeOK
      <4>5. \A t \in Txns : \/ BulkWrites(pick).total[t] = 0
                            \/ allocated[t] + BulkWrites(pick).total[t] <= Amount[t]
        <5> SUFFICES ASSUME NEW t \in Txns, t \in DOMAIN pick
                     PROVE  Remaining(t) = 0 \/ allocated[t] + Remaining(t) <= Amount[t]
          BY <4>3
        <5>1. /\ Amount[t] \in Nat
              /\ Remaining(t) = 0 \/ allocated[t] + Remaining(t) = Amount[t]
          BY <1>1, RemainingType
        <5> QED  BY <5>1
      <4>6. \A t \in DOMAIN pick : allocated[t] + BulkWrites(pick).total[t] >= Amount[t]
        BY <1>1, <3>2, <4>3, RemainingType
      <4> HIDE DEF pick
      <4>7. body[r].pick = pick  BY DEF pick
      <4> QED  BY <4>1, <4>4, <4>5, <4>6, <4>7
    <3> QED  BY <3>3, <3>4
  <2> QED  BY <2>1, <2>2
<1>4. PICK p \in {"rejected", "done", "insert"} :
        /\ pc' = [pc EXCEPT ![r] = p]
        /\ writes' \in [Requests -> Writes]
        /\ \A q \in Requests \ {r} : writes'[q] = writes[q]
        /\ p = "insert" => \A t \in Txns :
              writes'[r].total[t] = 0 \/ allocated[t] + writes'[r].total[t] <= Amount[t]
        /\ p = "insert" /\ body[r] \in BulkBody => \A t \in DOMAIN body[r].pick :
              allocated[t] + writes'[r].total[t] >= Amount[t]
        /\ p = "done" => /\ body[r] \in BulkBody
                         /\ \A t \in DOMAIN body[r].pick : allocated[t] >= Amount[t]
  BY <1>3
<1>5. p \in Pc /\ pc' \in [Requests -> Pc] /\ seen' \in [Requests -> [Txns -> Nat]]
      /\ \A q \in Requests \ {r} : seen'[q] = seen[q]
  BY <1>1, <1>2, <1>4 DEF TypeOK, Pc, Busy
<1>6. TypeOK'  BY <1>1, <1>2, <1>4, <1>5 DEF TypeOK
<1>7. found'[r] # {} => group'[r] \in Categories \X Days
  BY <1>2 DEF Inv, GroupKnown
<1>8. BodyKnown' /\ GroupKnown' /\ AlertKnown' /\ SumsInv'
  BY <1>1, <1>2, <1>4, <1>5, <1>7, StepFrame
<1> QED  BY <1>6, <1>8 DEF Inv

LEMMA InsertInv ==
  ASSUME Inv, SumsInv, NEW r \in Requests, Insert(r)
  PROVE  Inv' /\ SumsInv'
<1> DEFINE w == writes[r]
<1>1. TypeOK /\ pc[r] = "insert"  BY DEF Inv, Insert
<1>2. w.total \in [Txns -> Nat] /\ w.share \in [Categories -> [Txns -> Nat]]
  BY <1>1 DEF TypeOK, Writes
<1>3. /\ allocated' = [t \in Txns |-> allocated[t] + w.total[t]]
      /\ spent' = [c \in Categories |-> [t \in Txns |-> spent[c][t] + w.share[c][t]]]
      /\ UNCHANGED <<limit, notes, body, seen, writes, group, found, alert, edits>>
      /\ \/ pc' = [pc EXCEPT ![r] = "alerts"] /\ UNCHANGED faults
            /\ todo' = [todo EXCEPT ![r] = Groups(w)]
         \/ pc' = [pc EXCEPT ![r] = "failed"] /\ Fault /\ UNCHANGED todo
  BY DEF Insert, Go
<1>4. /\ \A t \in Txns : allocated[t] \in Nat /\ allocated'[t] = allocated[t] + w.total[t]
      /\ allocated' \in [Txns -> Nat]
  BY <1>1, <1>2, <1>3 DEF TypeOK
<1>5. spent' \in [Categories -> [Txns -> Nat]]
  <2>1. \A c \in Categories, t \in Txns : spent[c][t] + w.share[c][t] \in Nat
    BY <1>1, <1>2 DEF TypeOK
  <2> QED  BY <1>3, <2>1
<1>6. Groups(w) \in SUBSET (Categories \X Days)  BY DEF Groups
<1> HIDE DEF w
<1>7. /\ pc' \in [Requests -> Pc] /\ todo' \in [Requests -> SUBSET (Categories \X Days)]
      /\ faults' \in 0..MaxFaults
      /\ pc'[r] \in {"alerts", "failed"} /\ \A q \in Requests \ {r} : pc'[q] = pc[q]
  <2>1. {"alerts", "failed"} \subseteq Pc  BY DEF Pc, Busy
  <2>2. pc \in [Requests -> Pc]  BY <1>1 DEF TypeOK
  <2>3. \E p \in {"alerts", "failed"} : pc' = [pc EXCEPT ![r] = p]  BY <1>3
  <2>4. todo' \in [Requests -> SUBSET (Categories \X Days)]  BY <1>1, <1>3, <1>6 DEF TypeOK
  <2>5. faults' \in 0..MaxFaults  BY <1>1, <1>3, ConstantsAssumption DEF TypeOK, Fault
  <2> QED  BY <2>1, <2>2, <2>3, <2>4, <2>5
<1>8. TypeOK'  BY <1>1, <1>3, <1>4, <1>5, <1>7 DEF TypeOK
<1>9. BodyKnown' /\ GroupKnown' /\ AlertKnown'
  BY <1>1, <1>3, <1>7 DEF Inv, BodyKnown, GroupKnown, AlertKnown, Busy
<1>10. WithinSeen'  BY <1>3, <1>7 DEF SumsInv, WithinSeen
<1>11. \A q \in Requests : IsBulk(q) => DOMAIN body[q].pick \subseteq Txns
  <2> SUFFICES ASSUME NEW q \in Requests, IsBulk(q) PROVE DOMAIN body[q].pick \subseteq Txns
    OBVIOUS
  <2>1. \E S \in SUBSET Txns : body[q].pick \in [S -> Categories \cup {None}]
    BY DEF IsBulk, BulkBody
  <2> QED  BY <2>1
<1>12. \A t \in Txns : /\ w.total[t] \in Nat /\ Amount[t] \in Nat
                       /\ \A q \in Requests : writes[q].total[t] \in Nat
  BY <1>1, <1>2, ConstantsAssumption DEF TypeOK, Writes
<1>13. BulkCompletes'
  <2> SUFFICES ASSUME NEW q \in Requests, pc'[q] = "insert", IsBulk(q),
                      NEW t \in DOMAIN body[q].pick
               PROVE  allocated'[t] + writes[q].total[t] >= Amount[t]
    BY <1>3 DEF BulkCompletes, IsBulk
  <2>1. q # r /\ pc[q] = "insert" /\ t \in Txns  BY <1>7, <1>11
  <2>2. allocated[t] + writes[q].total[t] >= Amount[t]
    BY <2>1 DEF SumsInv, BulkCompletes
  <2> QED  BY <1>4, <1>12, <2>1, <2>2
<1>14. BulkCompleted'
  <2> SUFFICES ASSUME NEW q \in Requests, pc'[q] \in {"alerts", "notify", "reread", "done"},
                      IsBulk(q), NEW t \in DOMAIN body[q].pick
               PROVE  allocated'[t] >= Amount[t]
    BY <1>3 DEF BulkCompleted, IsBulk
  <2>1. t \in Txns  BY <1>11
  <2>2. CASE q = r
    <3>1. allocated[t] + writes[r].total[t] >= Amount[t]
      BY <1>1, <2>2 DEF SumsInv, BulkCompletes
    <3> QED  BY <1>4, <2>1, <3>1 DEF w
  <2>3. CASE q # r
    <3>1. allocated[t] >= Amount[t]
      BY <1>7, <2>3 DEF SumsInv, BulkCompleted
    <3> QED  BY <1>4, <1>12, <2>1, <3>1
  <2> QED  BY <2>2, <2>3
<1> QED  BY <1>8, <1>9, <1>10, <1>13, <1>14 DEF Inv, SumsInv

LEMMA NextGroupInv ==
  ASSUME Inv, SumsInv, NEW r \in Requests, NextGroup(r)
  PROVE  Inv' /\ SumsInv'
<1>1. TypeOK  BY DEF Inv
<1>2. UNCHANGED <<allocated, spent, limit, notes, pc, body, seen, writes, alert, faults, edits>>
  BY DEF NextGroup
<1>3. PICK g \in Categories \X Days :
        /\ todo' = [todo EXCEPT ![r] = @ \ {g}]
        /\ group' = [group EXCEPT ![r] = g]
        /\ \E F : found' = [found EXCEPT ![r] = F] /\ F \subseteq Found
  <2>1. PICK g \in todo[r] :
          /\ todo' = [todo EXCEPT ![r] = @ \ {g}]
          /\ group' = [group EXCEPT ![r] = g]
          /\ found' = [found EXCEPT ![r] =
                {[budget |-> b, limit |-> limit[b]] : b \in
                    {x \in Budgets : /\ CategoryType[g[1]] = "expense"
                                     /\ limit[x] # Absent
                                     /\ CategoryOf[x] = g[1]
                                     /\ g[2] \in Window[x]}}]
    BY DEF NextGroup
  <2>2. g \in Categories \X Days  BY <1>1, <2>1 DEF TypeOK
  <2>3. {[budget |-> b, limit |-> limit[b]] : b \in
            {x \in Budgets : /\ CategoryType[g[1]] = "expense"
                             /\ limit[x] # Absent
                             /\ CategoryOf[x] = g[1]
                             /\ g[2] \in Window[x]}} \subseteq Found
    BY <1>1 DEF TypeOK, Found
  <2> QED  BY <2>1, <2>2, <2>3
<1>4. /\ todo' \in [Requests -> SUBSET (Categories \X Days)]
      /\ group' \in [Requests -> (Categories \X Days) \cup {None}]
      /\ found' \in [Requests -> SUBSET Found]
  BY <1>1, <1>3 DEF TypeOK
<1>5. TypeOK'  BY <1>1, <1>2, <1>4 DEF TypeOK
<1>6. GroupKnown'  BY <1>1, <1>3 DEF Inv, TypeOK, GroupKnown
<1>7. BodyKnown' /\ AlertKnown'  BY <1>2 DEF Inv, BodyKnown, AlertKnown
<1>8. SumsInv'
  BY <1>2 DEF SumsInv, WithinSeen, BulkCompletes, BulkCompleted, IsBulk
<1> QED  BY <1>5, <1>6, <1>7, <1>8 DEF Inv

LEMMA EvaluateInv ==
  ASSUME Inv, SumsInv, NEW r \in Requests, NEW e \in found[r], Evaluate(r, e)
  PROVE  Inv' /\ SumsInv'
<1> DEFINE after == ConsumedAfter(r, e.budget)
           from  == ExpenseState(e.limit, after - NewAmount(r), NearThreshold)
           to    == ExpenseState(e.limit, after, NearThreshold)
           n     == [by |-> r, day |-> group[r][2], budget |-> e.budget, limit |-> e.limit,
                     state |-> to]
<1>1. TypeOK /\ pc[r] = "alerts" /\ e \in Found  BY DEF Inv, TypeOK, Evaluate
<1>2. group[r] \in Categories \X Days  BY DEF Inv, GroupKnown
<1>3. /\ found' = [found EXCEPT ![r] = @ \ {e}]
      /\ UNCHANGED <<allocated, spent, limit, notes, body, seen, writes, todo, group, faults,
                     edits>>
  BY DEF Evaluate
<1>4. CASE e.limit # None /\ Crosses(from, to)
  <2>1. n \in Alert
    <3>1. to \in {"near", "at", "over"}  BY <1>4, ExpenseStateType DEF Crosses
    <3> HIDE DEF to
    <3>2. group[r][2] \in Days /\ e.budget \in Budgets /\ e.limit \in Limits
      BY <1>1, <1>2, <1>4 DEF Found
    <3> QED  BY <3>1, <3>2 DEF Alert
  <2>2. pc' = [pc EXCEPT ![r] = "notify"] /\ alert' = [alert EXCEPT ![r] = n]
    BY <1>4 DEF Evaluate, Go
  <2> HIDE DEF n
  <2>3. TypeOK'
    BY <1>1, <1>3, <2>1, <2>2 DEF TypeOK, Pc, Busy
  <2>4. body[r] \in SplitBody \cup BulkBody  BY <1>1 DEF Inv, BodyKnown, Busy
  <2>5. "notify" \in Pc /\ alert'[r] = n /\ group'[r] = group[r] /\ body'[r] = body[r]
    BY <1>1, <1>3, <2>2 DEF TypeOK, Pc, Busy
  <2>6. body[r] \in BulkBody => \A t \in DOMAIN body[r].pick : allocated[t] >= Amount[t]
    BY <1>1 DEF SumsInv, BulkCompleted, IsBulk
  <2>7. \A q \in Requests \ {r} : found'[q] = found[q] /\ alert'[q] = alert[q]
    BY <1>1, <1>3, <2>2 DEF TypeOK
  <2>8. BodyKnown' /\ GroupKnown' /\ AlertKnown' /\ SumsInv'
    BY <1>2, <1>3, <2>1, <2>2, <2>4, <2>5, <2>6, <2>7, StepFrame
  <2> QED  BY <2>3, <2>8 DEF Inv
<1>5. CASE ~(e.limit # None /\ Crosses(from, to))
  <2>1. UNCHANGED <<pc, alert>>  BY <1>5 DEF Evaluate
  <2>2. TypeOK'  BY <1>1, <1>3, <2>1 DEF TypeOK
  <2>3. BodyKnown' /\ AlertKnown'  BY <1>3, <2>1 DEF Inv, BodyKnown, AlertKnown
  <2>4. GroupKnown'  BY <1>1, <1>2, <1>3 DEF Inv, TypeOK, GroupKnown
  <2>5. SumsInv'
    BY <1>3, <2>1 DEF SumsInv, WithinSeen, BulkCompletes, BulkCompleted, IsBulk
  <2> QED  BY <2>2, <2>3, <2>4, <2>5 DEF Inv
<1> QED  BY <1>4, <1>5

(* The end of the alerting, of the request, and the answer. *)
LEMMA EndInv ==
  ASSUME Inv, SumsInv, NEW r \in Requests,
         Notify(r) \/ AlertsDone(r) \/ AlertsFail(r) \/ Reread(r) \/ RequestFails(r)
  PROVE  Inv' /\ SumsInv'
<1>1. TypeOK /\ pc[r] \in Busy
  BY DEF Inv, Notify, AlertsDone, AlertsFail, Reread, RequestFails, Busy
<1>2. UNCHANGED <<allocated, spent, limit, body, seen, writes, group, edits>>
  BY DEF Notify, AlertsDone, AlertsFail, Reread, RequestFails
<1>3. PICK p \in {"alerts", "reread", "done", "failed"} :
        /\ pc' = [pc EXCEPT ![r] = p]
        /\ p # "failed" => pc[r] \in {"alerts", "notify", "reread"}
  BY DEF Notify, AlertsDone, AlertsFail, Reread, RequestFails, AfterAlerts, Go
<1>4. /\ todo' \in [Requests -> SUBSET (Categories \X Days)]
      /\ found' \in [Requests -> SUBSET Found] /\ alert' \in [Requests -> Alert \cup {None}]
      /\ \A q \in Requests \ {r} : found'[q] = found[q] /\ alert'[q] = alert[q]
      /\ found'[r] \in {found[r], {}}
  BY <1>1 DEF TypeOK, Notify, AlertsDone, AlertsFail, Reread, RequestFails
<1>5. notes' \subseteq Alert
  <2>1. CASE Notify(r)  BY <1>1, <2>1 DEF Notify, Inv, AlertKnown, TypeOK
  <2>2. CASE AlertsFail(r)
    <3>1. alert[r] # None => alert[r] \in Alert  BY <1>1 DEF TypeOK
    <3>2. notes' \in {notes} \cup {notes \cup {a} : a \in {alert[r]} \ {None}}
      BY <2>2 DEF AlertsFail
    <3> QED  BY <1>1, <3>1, <3>2 DEF TypeOK
  <2> QED  BY <1>1, <2>1, <2>2 DEF TypeOK, AlertsDone, Reread, RequestFails
<1>6. faults' \in 0..MaxFaults
  BY <1>1, ConstantsAssumption DEF TypeOK, Notify, AlertsDone, AlertsFail, Reread, RequestFails,
                                   Fault
<1>7. p \in Pc /\ pc' \in [Requests -> Pc]  BY <1>1, <1>3 DEF TypeOK, Pc, Busy
<1>8. TypeOK'  BY <1>1, <1>2, <1>4, <1>5, <1>6, <1>7 DEF TypeOK
<1>9. body'[r] \in SplitBody \cup BulkBody
  BY <1>1, <1>2 DEF Inv, BodyKnown, Busy
<1>10. found'[r] # {} => group'[r] \in Categories \X Days
  BY <1>2, <1>4 DEF Inv, GroupKnown
<1>11. p # "failed" /\ body'[r] \in BulkBody =>
          \A t \in DOMAIN body'[r].pick : allocated[t] >= Amount[t]
  BY <1>2, <1>3 DEF SumsInv, BulkCompleted, IsBulk
<1>12. BodyKnown' /\ GroupKnown' /\ AlertKnown' /\ SumsInv'
  BY <1>2, <1>3, <1>4, <1>7, <1>9, <1>10, <1>11, StepFrame
<1> QED  BY <1>8, <1>12 DEF Inv

LEMMA SetLimitInv ==
  ASSUME Inv, SumsInv, NEW b \in Budgets, NEW l \in Limits \cup {None}, SetLimit(b, l)
  PROVE  Inv' /\ SumsInv'
<1>1. /\ limit' \in [Budgets -> Limits \cup {None, Absent}] /\ edits' \in 0..MaxEdits
      /\ UNCHANGED <<allocated, spent, notes, requestVars, faults>>
  BY ConstantsAssumption DEF Inv, TypeOK, SetLimit
<1>2. TypeOK'  BY <1>1 DEF Inv, TypeOK, requestVars
<1>3. BodyKnown' /\ GroupKnown' /\ AlertKnown'
  BY <1>1 DEF Inv, BodyKnown, GroupKnown, AlertKnown, requestVars
<1>4. SumsInv'
  BY <1>1 DEF SumsInv, WithinSeen, BulkCompletes, BulkCompleted, IsBulk, requestVars
<1> QED  BY <1>2, <1>3, <1>4 DEF Inv

LEMMA NextInv == Inv /\ SumsInv /\ [Next]_vars => Inv' /\ SumsInv'
<1> SUFFICES ASSUME Inv, SumsInv, [Next]_vars PROVE Inv' /\ SumsInv'
  OBVIOUS
<1>1. CASE UNCHANGED vars
  <2>1. Inv'  BY <1>1 DEF Inv, TypeOK, BodyKnown, GroupKnown, AlertKnown, vars, requestVars
  <2>2. SumsInv'
    BY <1>1 DEF SumsInv, WithinSeen, BulkCompletes, BulkCompleted, IsBulk, vars, requestVars
  <2> QED  BY <2>1, <2>2
<1> QED
  BY <1>1, PostInv, ReadInv, InsertInv, NextGroupInv, EvaluateInv, EndInv, SetLimitInv DEF Next

LEMMA Invariance == Spec => [](Inv /\ SumsInv)
  BY InitInv, NextInv, PTL DEF Spec

(* Every variable of the two endpoints stays in its type; in particular no *)
(* request inserts a negative amount.                                      *)
THEOREM TypeCorrect == Spec => []TypeOK
<1>1. Inv => TypeOK  BY DEF Inv
<1> QED  BY <1>1, Invariance, PTL

(* bulk_allocate_endpoint leaves every transaction it was given reconciled, *)
(* whatever other requests insert between its read and its insert.          *)
THEOREM BulkAlwaysReconciles == Spec => []BulkReconciles
<1>1. Inv /\ SumsInv => BulkReconciles
  <2> SUFFICES ASSUME Inv, SumsInv, NEW r \in Requests, pc[r] = "done", body[r].kind = "bulk"
               PROVE  \A t \in DOMAIN body[r].pick : allocated[t] >= Amount[t]
    BY DEF BulkReconciles
  <2>1. body[r] \in BulkBody
    BY DEF Inv, BodyKnown, SplitBody
  <2> QED  BY <2>1 DEF SumsInv, BulkCompleted, IsBulk
<1> QED  BY <1>1, Invariance, PTL

(* An insert of either endpoint takes a transaction past its amount only   *)
(* if its sum changed after the request read it: the check itself, and the *)
(* computation of what remains, are right.                                 *)
THEOREM OnlyStaleChecksOverAllocate == Spec => OnlyRacesOverAllocate
<1> DEFINE Act == \A t \in Txns : allocated'[t] > Amount[t] /\ allocated'[t] # allocated[t] =>
                     \E r \in Requests : pc[r] = "insert" /\ pc'[r] # "insert" /\ seen[r][t] # allocated[t]
<1>1. ASSUME Inv, SumsInv, [Next]_vars PROVE [Act]_vars
  <2>1. CASE allocated' = allocated  BY <2>1
  <2>2. ASSUME NEW r \in Requests, Insert(r) PROVE Act
    <3> SUFFICES ASSUME NEW t \in Txns, allocated'[t] > Amount[t], allocated'[t] # allocated[t],
                        seen[r][t] = allocated[t]
                 PROVE  FALSE
      <4>1. pc[r] = "insert" /\ pc'[r] # "insert"
        BY <1>1, <2>2 DEF Insert, Go, Inv, TypeOK
      <4> QED  BY <4>1
    <3>1. allocated'[t] = allocated[t] + writes[r].total[t]
      BY <2>2 DEF Insert
    <3>2. /\ allocated[t] \in Nat /\ writes[r].total[t] \in Nat /\ Amount[t] \in Nat
      BY <1>1, ConstantsAssumption DEF Inv, TypeOK, Writes
    <3>3. writes[r].total[t] = 0 \/ seen[r][t] + writes[r].total[t] <= Amount[t]
      BY <1>1, <2>2 DEF SumsInv, WithinSeen, Insert
    <3> QED  BY <3>1, <3>2, <3>3
  <2>3. allocated' = allocated \/ \E r \in Requests : Insert(r)
    BY <1>1 DEF Next, vars, PostSplits, PostBulk, ReadSplit, ReadBulk, NextGroup, Evaluate,
                Notify, AlertsDone, AlertsFail, Reread, RequestFails, SetLimit
  <2> QED  BY <2>1, <2>2, <2>3
<1>2. Spec => [][Act]_vars
  <2>1. Inv /\ SumsInv /\ [Next]_vars => [Act]_vars  BY <1>1
  <2> HIDE DEF Act
  <2> QED  BY <2>1, Invariance, PTL DEF Spec
<1> QED  BY <1>2 DEF OnlyRacesOverAllocate

-----------------------------------------------------------------------------
(* The alerts.  First the sums they are derived from: rows are only ever   *)
(* added, so the consumption of a budget never shrinks.                    *)

LEMMA ConsumedType ==
  ASSUME TypeOK, NEW b \in Budgets
  PROVE  /\ IsFiniteSet(Covered(b)) /\ Covered(b) \in SUBSET Txns
         /\ CategoryOf[b] \in Categories
         /\ Consumed(b) \in Nat
         /\ \A r \in Requests : Added(r, b) \in Nat
<1>1. Covered(b) \in SUBSET Txns  BY DEF Covered
<1>2. IsFiniteSet(Covered(b))  BY <1>1, FiniteTables, FS_Subset
<1>3. CategoryOf[b] \in Categories  BY ConstantsAssumption
<1>4. \A t \in Covered(b) : spent[CategoryOf[b]][t] \in Nat
  BY <1>1, <1>3 DEF TypeOK
<1>5. Consumed(b) \in Nat  BY <1>2, <1>4, SumNat DEF Consumed
<1>6. ASSUME NEW r \in Requests PROVE Added(r, b) \in Nat
  <2>1. \A t \in Covered(b) : writes[r].share[CategoryOf[b]][t] \in Nat
    BY <1>1, <1>3 DEF TypeOK, Writes
  <2> QED  BY <1>2, <2>1, SumNat DEF Added
<1> QED  BY <1>1, <1>2, <1>3, <1>5, <1>6

LEMMA ConsumedKept ==
  ASSUME spent' = spent, NEW b PROVE Consumed(b)' = Consumed(b)
  BY DEF Consumed, Covered

LEMMA InsertConsumes ==
  ASSUME TypeOK, NEW r \in Requests, Insert(r), NEW b \in Budgets
  PROVE  Consumed(b)' = Consumed(b) + Added(r, b)
<1>1. /\ IsFiniteSet(Covered(b)) /\ Covered(b) \in SUBSET Txns
      /\ CategoryOf[b] \in Categories
  BY ConsumedType
<1>2. spent' = [c \in Categories |-> [t \in Txns |-> spent[c][t] + writes[r].share[c][t]]]
  BY DEF Insert
<1>3. PICK h : h = spent'[CategoryOf[b]]  OBVIOUS
<1>4. PICK f : f = spent[CategoryOf[b]]  OBVIOUS
<1>5. PICK g : g = writes[r].share[CategoryOf[b]]  OBVIOUS
<1>6. \A t \in Covered(b) : f[t] \in Int /\ g[t] \in Int /\ h[t] = f[t] + g[t]
  BY <1>1, <1>2, <1>3, <1>4, <1>5 DEF TypeOK, Writes
<1>7. SumFunctionOnSet(h, Covered(b)) = SumFunctionOnSet(f, Covered(b)) + SumFunctionOnSet(g, Covered(b))
  BY <1>1, <1>6, SumPlus
<1>8. Consumed(b)' = SumFunctionOnSet(h, Covered(b))
  BY <1>3 DEF Consumed, Covered
<1> QED  BY <1>4, <1>5, <1>7, <1>8 DEF Consumed, Added

LEMMA OnlyInsertSpends ==
  ASSUME [Next]_vars PROVE spent' = spent \/ \E r \in Requests : Insert(r)
  BY DEF Next, vars, PostSplits, PostBulk, ReadSplit, ReadBulk, NextGroup, Evaluate,
         Notify, AlertsDone, AlertsFail, Reread, RequestFails, SetLimit

(* The groups of a request that reach a budget, and the amount it adds.    *)
Matching(r, b) ==
    {g \in Groups(writes[r]) : g[1] = CategoryOf[b] /\ g[2] \in Window[b]}
Single(r, b) == \A g, h \in Matching(r, b) : g = h

LEMMA NoGroupAddsNothing ==
  ASSUME TypeOK, NEW r \in Requests, NEW b \in Budgets, Matching(r, b) = {}
  PROVE  Added(r, b) = 0
<1>1. /\ IsFiniteSet(Covered(b)) /\ Covered(b) \in SUBSET Txns
      /\ CategoryOf[b] \in Categories
  BY ConsumedType
<1> DEFINE f == writes[r].share[CategoryOf[b]]
<1>2. ASSUME NEW t \in Covered(b) PROVE f[t] = 0
  <2>1. f[t] \in Nat  BY <1>1 DEF TypeOK, Writes
  <2>2. t \in Txns /\ Day[t] \in Days /\ Day[t] \in Window[b]
    BY <1>1, ConstantsAssumption DEF Covered
  <2>3. <<CategoryOf[b], Day[t]>> \notin Groups(writes[r])  BY <2>2 DEF Matching
  <2>4. ~(f[t] > 0)  BY <1>1, <2>2, <2>3 DEF Groups
  <2> QED  BY <2>1, <2>4
<1> HIDE DEF f
<1>3. SumFunctionOnSet(f, Covered(b)) = 0  BY <1>1, <1>2, SumZero
<1> QED  BY <1>3 DEF Added, f

(* With a single group for the budget, that group's sum is all that the    *)
(* request adds to it.                                                     *)
LEMMA NewIsAdded ==
  ASSUME TypeOK, NEW r \in Requests, NEW b \in Budgets, group[r] \in Matching(r, b), Single(r, b)
  PROVE  NewAmount(r) = Added(r, b)
<1> DEFINE f == writes[r].share[CategoryOf[b]]
           T == {t \in Txns : Day[t] = group[r][2]}
<1>1. /\ IsFiniteSet(Covered(b)) /\ Covered(b) \in SUBSET Txns
      /\ CategoryOf[b] \in Categories
  BY ConsumedType
<1>2. group[r][1] = CategoryOf[b] /\ group[r][2] \in Window[b]  BY DEF Matching
<1>3. T \in SUBSET Covered(b)  BY <1>2 DEF Covered
<1>4. \A t \in Covered(b) : f[t] \in Nat  BY <1>1 DEF TypeOK, Writes
<1>5. ASSUME NEW t \in Covered(b) \ T PROVE f[t] = 0
  <2>1. t \in Txns /\ Day[t] \in Days /\ Day[t] \in Window[b] /\ Day[t] # group[r][2]
    BY <1>1, ConstantsAssumption DEF Covered
  <2>2. <<CategoryOf[b], Day[t]>> # group[r]  BY <2>1
  <2>3. <<CategoryOf[b], Day[t]>> \notin Matching(r, b)  BY <2>2 DEF Single
  <2>4. <<CategoryOf[b], Day[t]>> \notin Groups(writes[r])  BY <2>1, <2>3 DEF Matching
  <2>5. ~(f[t] > 0)  BY <1>1, <2>1, <2>4 DEF Groups
  <2> QED  BY <1>4, <2>5
<1> HIDE DEF f, T
<1>6. SumFunctionOnSet(f, Covered(b)) = SumFunctionOnSet(f, T)
  BY <1>1, <1>3, <1>4, <1>5, SumIgnoresZeros
<1> QED  BY <1>2, <1>6 DEF NewAmount, Added, f, T

-----------------------------------------------------------------------------
(* What is known of the alerting of each request. *)

Inserted(r)    == pc[r] \in {"alerts", "notify", "reread", "done"}
AlertsOf(r, b) == {n \in notes : n.by = r /\ n.budget = b}

(* An alert that exists, or is about to be inserted, was reached. *)
Reached(n) ==
    StateRank[n.state] <= StateRank[ExpenseState(n.limit, Consumed(n.budget), NearThreshold)]
AlertsReached ==
    /\ \A n \in notes : Reached(n)
    /\ \A r \in Requests : alert[r] # None => Reached(alert[r])

(* What a request has still to look at comes from its own rows, and, while *)
(* no budget is edited, with the limits there are.                         *)
Work(r) ==
    /\ todo[r] \subseteq Groups(writes[r])
    /\ pc[r] \notin {"alerts", "notify"} => todo[r] = {} /\ found[r] = {}
    /\ pc[r] # "notify" => alert[r] = None
    /\ pc[r] = "notify" => alert[r].by = r /\ group[r] \in Matching(r, alert[r].budget)
    /\ \A e \in found[r] : group[r] \in Matching(r, e.budget)
    /\ edits = 0 => \A e \in found[r] : e.limit = limit[e.budget]

(* Only a request with rows for a budget has alerted for it. *)
Note(n) == pc[n.by] \notin {"idle", "read", "insert"} /\ Matching(n.by, n.budget) # {}

(* Nobody takes back what a request inserted. *)
Rows(r) ==
    /\ pc[r] \in {"idle", "read"} => writes[r] = NoWrites /\ before[r] = [b \in Budgets |-> 0]
    /\ Inserted(r) => \A b \in Budgets : before[r][b] + Added(r, b) <= Consumed(b)

(* How far a request is with a budget that nobody else has allocated to.   *)
Undisturbed(r, b) == Consumed(b) = before[r][b] + Added(r, b)

Waiting(r, b)    == Matching(r, b) \cap todo[r] # {}
Looking(r, b)    == \E e \in found[r] : e.budget = b
Announcing(r, b) == alert[r] # None /\ alert[r].budget = b

AlertedOnce(r, b) ==
    /\ Waiting(r, b) => ~Looking(r, b)
    /\ Waiting(r, b) \/ Looking(r, b) => ~Announcing(r, b)
    /\ Waiting(r, b) \/ Looking(r, b) \/ Announcing(r, b) \/ ~Crossed(r, b) => AlertsOf(r, b) = {}
    /\ Announcing(r, b) => Crossed(r, b)
    /\ ~Waiting(r, b) /\ ~Looking(r, b) /\ ~Announcing(r, b) /\ Crossed(r, b) =>
          \E n : AlertsOf(r, b) = {n}

Calm == faults = 0 /\ edits = 0
Once(r) == \A b \in Alertable : Inserted(r) /\ Undisturbed(r, b) /\ Single(r, b) => AlertedOnce(r, b)

AlertInv ==
    /\ before \in [Requests -> [Budgets -> Nat]]
    /\ AlertsReached
    /\ \A r \in Requests : Work(r) /\ Rows(r)
    /\ \A n \in notes : Note(n)
    /\ Calm => \A r \in Requests : Once(r)

-----------------------------------------------------------------------------
LEMMA NoWritesReachNothing ==
  ASSUME NEW r \in Requests, writes[r] = NoWrites
  PROVE  Groups(writes[r]) = {} /\ \A b : Matching(r, b) = {}
<1>1. \A c \in Categories, t \in Txns : ~(NoWrites.share[c][t] > 0)
  BY DEF NoWrites
<1> QED  BY <1>1 DEF Groups, Matching

LEMMA AlertInit == Init => AlertInv
<1> SUFFICES ASSUME Init PROVE AlertInv
  OBVIOUS
<1>1. ASSUME NEW r \in Requests
      PROVE  pc[r] = "idle" /\ todo[r] = {} /\ found[r] = {} /\ alert[r] = None
             /\ writes[r] = NoWrites /\ before[r] = [b \in Budgets |-> 0]
  BY DEF Init
<1>2. ASSUME NEW r \in Requests PROVE Work(r) /\ Rows(r) /\ ~Inserted(r)
  BY <1>1 DEF Work, Rows, Inserted
<1>3. notes = {} /\ before \in [Requests -> [Budgets -> Nat]]  BY DEF Init
<1> QED  BY <1>1, <1>2, <1>3 DEF AlertInv, AlertsReached, Once

(* A request that does not move, while nothing is inserted, keeps all.     *)
LEMMA Bystander ==
  ASSUME Inv, AlertInv, NEW q \in Requests,
         pc'[q] = pc[q], todo'[q] = todo[q], found'[q] = found[q], group'[q] = group[q],
         alert'[q] = alert[q], writes'[q] = writes[q], before'[q] = before[q]
  PROVE  /\ (edits' = edits /\ limit' = limit) \/ edits' # 0 => Work(q)'
         /\ spent' = spent => Rows(q)'
         /\ limit' = limit /\ spent' = spent /\ (\A n \in (notes \cup notes') : n.by = q => n \in notes \cap notes')
               => (Once(q) => Once(q)')
<1>1. \A b : Matching(q, b)' = Matching(q, b) /\ Single(q, b)' = Single(q, b)
  BY DEF Matching, Single, Groups
<1>2. ASSUME (edits' = edits /\ limit' = limit) \/ edits' # 0 PROVE Work(q)'
  BY <1>1, <1>2 DEF AlertInv, Work
<1>3. \A b : Added(q, b)' = Added(q, b)  BY DEF Added, Covered
<1>4. Inserted(q)' = Inserted(q)  BY DEF Inserted
<1>5. ASSUME spent' = spent PROVE Rows(q)'
  BY <1>3, <1>4, <1>5, ConsumedKept DEF AlertInv, Rows
<1>6. ASSUME limit' = limit, spent' = spent,
             \A n \in (notes \cup notes') : n.by = q => n \in notes \cap notes',
             Once(q)
      PROVE  Once(q)'
  <2>1. \A b : AlertsOf(q, b)' = AlertsOf(q, b)  BY <1>6 DEF AlertsOf
  <2>2. \A b : Crossed(q, b)' = Crossed(q, b)  BY <1>3, <1>6 DEF Crossed
  <2>3. \A b : Undisturbed(q, b)' = Undisturbed(q, b)
    BY <1>3, <1>6, ConsumedKept DEF Undisturbed
  <2>4. ASSUME NEW b PROVE AlertedOnce(q, b) => AlertedOnce(q, b)'
    <3>1. /\ Waiting(q, b)' <=> Waiting(q, b)
          /\ Looking(q, b)' <=> Looking(q, b)
          /\ Announcing(q, b)' <=> Announcing(q, b)
      BY <1>1 DEF Waiting, Looking, Announcing
    <3>2. (Crossed(q, b)' <=> Crossed(q, b)) /\ AlertsOf(q, b)' = AlertsOf(q, b)
      BY <2>1, <2>2
    <3> QED  BY <3>1, <3>2 DEF AlertedOnce
  <2>5. Alertable' = Alertable  BY <1>6 DEF Alertable
  <2> QED  BY <1>1, <1>4, <1>6, <2>3, <2>4, <2>5 DEF Once
<1> QED  BY <1>2, <1>5, <1>6

(* One request moves on, and nothing is inserted: what there is to show of *)
(* that one.                                                               *)
LEMMA MoverFrame ==
  ASSUME Inv, AlertInv, NEW r \in Requests, UNCHANGED <<spent, before, limit, edits>>,
         faults' = 0 => faults = 0,
         \A q \in Requests \ {r} :
            /\ pc'[q] = pc[q] /\ todo'[q] = todo[q] /\ found'[q] = found[q]
            /\ group'[q] = group[q] /\ alert'[q] = alert[q] /\ writes'[q] = writes[q],
         notes \subseteq notes', \A n \in notes' \ notes : n.by = r /\ Reached(n),
         \A n \in notes' : n.by = r => Note(n)',
         alert'[r] # None => Reached(alert'[r]),
         Work(r)', Rows(r)', Calm' => Once(r)'
  PROVE  AlertInv'
<1>1. \A n : Reached(n)' = Reached(n)
  BY ConsumedKept DEF Reached
<1>2. AlertsReached'
  <2>1. \A n \in notes' : Reached(n)  BY DEF AlertInv, AlertsReached
  <2>2. \A q \in Requests : alert'[q] # None => Reached(alert'[q])
    BY DEF AlertInv, AlertsReached
  <2> QED  BY <1>1, <2>1, <2>2 DEF AlertsReached
<1>3. ASSUME NEW q \in Requests PROVE Work(q)' /\ Rows(q)'
  <2>1. CASE q = r  BY <2>1
  <2>2. CASE q # r
    <3>1. q \in Requests \ {r}  BY <2>2
    <3> QED  BY <3>1, Bystander
  <2> QED  BY <2>1, <2>2
<1>4. ASSUME NEW n \in notes' PROVE Note(n)'
  <2>1. CASE n.by = r  BY <2>1
  <2>2. CASE n.by # r
    <3>1. n \in notes /\ n \in Alert  BY <2>2 DEF Inv, TypeOK
    <3>2. n.by \in Requests \ {r}  BY <2>2, <3>1 DEF Alert
    <3>3. Note(n)  BY <3>1 DEF AlertInv
    <3>4. PICK q \in Requests \ {r} : q = n.by  BY <3>2
    <3>5. Matching(q, n.budget)' = Matching(q, n.budget) /\ pc'[q] = pc[q]
      BY DEF Matching, Groups
    <3> QED  BY <3>3, <3>4, <3>5 DEF Note
  <2> QED  BY <2>1, <2>2
<1>5. ASSUME Calm', NEW q \in Requests PROVE Once(q)'
  <2>1. CASE q = r  BY <1>5, <2>1
  <2>2. CASE q # r
    <3>1. Calm  BY <1>5 DEF Calm
    <3>2. Once(q) /\ q \in Requests \ {r}  BY <2>2, <3>1 DEF AlertInv
    <3>3. \A n \in notes \cup notes' : n.by = q => n \in notes \cap notes'
      BY <2>2
    <3> QED  BY <3>2, <3>3, Bystander
  <2> QED  BY <2>1, <2>2
<1> QED  BY <1>2, <1>3, <1>4, <1>5 DEF AlertInv

LEMMA PostAlerts ==
  ASSUME Inv, AlertInv, NEW r \in Requests,
         \/ \E t \in Txns, split \in Splits : PostSplits(r, t, split)
         \/ \E pick \in Picks : PostBulk(r, pick)
  PROVE  AlertInv'
<1>1. /\ UNCHANGED <<spent, limit, notes, writes, before, todo, group, found, alert, faults, edits>>
      /\ pc[r] = "idle"
      /\ \E p \in {"read", "rejected"} : pc' = [pc EXCEPT ![r] = p]
  BY DEF PostSplits, PostBulk, Go
<1>2. pc'[r] \in {"read", "rejected"} /\ \A q \in Requests \ {r} : pc'[q] = pc[q]
  BY <1>1 DEF Inv, TypeOK
<1>3. Work(r) /\ Rows(r) /\ \A n \in notes : n.by # r
  BY <1>1 DEF AlertInv, Note
<1>4. todo[r] = {} /\ found[r] = {} /\ alert[r] = None  BY <1>1, <1>3 DEF Work
<1>5. Work(r)'  BY <1>1, <1>2, <1>4 DEF Work
<1>6. Rows(r)' /\ ~Inserted(r)'  BY <1>1, <1>2, <1>3 DEF Rows, Inserted
<1>7. Once(r)'  BY <1>6 DEF Once
<1> QED  BY <1>1, <1>2, <1>3, <1>4, <1>5, <1>6, <1>7, MoverFrame

(* A bulk request whose transactions are all reconciled is answered        *)
(* without rows.                                                           *)
LEMMA ReadAlerts ==
  ASSUME Inv, AlertInv, NEW r \in Requests, ReadSplit(r) \/ ReadBulk(r)
  PROVE  AlertInv'
<1>1. /\ UNCHANGED <<spent, limit, notes, before, todo, group, found, alert, faults, edits>>
      /\ pc[r] = "read"
  BY DEF ReadSplit, ReadBulk
<1>2. \E p \in {"rejected", "done", "insert"} :
        /\ pc' = [pc EXCEPT ![r] = p]
        /\ p # "insert" => writes' = writes
        /\ \E w : writes' = [writes EXCEPT ![r] = w]
  <2>1. writes = [writes EXCEPT ![r] = writes[r]]  BY DEF Inv, TypeOK
  <2> QED  BY <2>1 DEF ReadSplit, ReadBulk, Go
<1>3. /\ pc'[r] \in {"rejected", "done", "insert"}
      /\ pc'[r] # "insert" => writes' = writes
      /\ \A q \in Requests \ {r} : pc'[q] = pc[q] /\ writes'[q] = writes[q]
  BY <1>2 DEF Inv, TypeOK
<1>4. Work(r) /\ Rows(r) /\ \A n \in notes : n.by # r
  BY <1>1 DEF AlertInv, Note
<1>5. todo[r] = {} /\ found[r] = {} /\ alert[r] = None  BY <1>1, <1>4 DEF Work
<1>6. writes[r] = NoWrites /\ before[r] = [b \in Budgets |-> 0]  BY <1>1, <1>4 DEF Rows
<1>7. Work(r)'  BY <1>1, <1>3, <1>5 DEF Work
<1>8. ASSUME NEW b \in Budgets, pc'[r] = "done"
      PROVE  Added(r, b)' = 0 /\ Added(r, b) = 0 /\ before[r][b] = 0 /\ Consumed(b) \in Nat
  <2>1. Added(r, b)' = Added(r, b)  BY <1>3, <1>8 DEF Added, Covered
  <2> QED  BY <1>6, <2>1, NoWritesReachNothing, NoGroupAddsNothing, ConsumedType DEF Inv
<1>9. Rows(r)'
  <2>1. ASSUME NEW b \in Budgets, Inserted(r)'
        PROVE  before'[r][b] + Added(r, b)' <= Consumed(b)'
    <3>1. pc'[r] = "done"  BY <1>3, <2>1 DEF Inserted
    <3> QED  BY <1>1, <1>8, <3>1, ConsumedKept
  <2> QED  BY <1>1, <1>3, <1>4, <2>1 DEF Rows
<1>10. Once(r)'
  <2> SUFFICES ASSUME NEW b \in Budgets, Inserted(r)' PROVE AlertedOnce(r, b)'
    BY DEF Once, Alertable
  <2>1. pc'[r] = "done" /\ writes' = writes  BY <1>3 DEF Inserted
  <2>2. Matching(r, b)' = {}
    BY <1>6, <2>1, NoWritesReachNothing DEF Matching, Groups
  <2>3. ~Waiting(r, b)' /\ ~Looking(r, b)' /\ ~Announcing(r, b)'
    BY <1>1, <1>5, <2>2 DEF Waiting, Looking, Announcing
  <2>4. ~Crossed(r, b)'
    <3> DEFINE x == StateRank[ExpenseState(limit[b], 0, NearThreshold)]
    <3>1. x \in Nat
      <4>1. ExpenseState(limit[b], 0, NearThreshold) \in {"ok", "near", "at", "over"}
        BY ExpenseStateType
      <4> QED  BY <4>1 DEF StateRank
    <3>2. Crossed(r, b)' <=> x > x
      BY <1>1, <1>8, <2>1 DEF Crossed
    <3> QED  BY <3>1, <3>2
  <2>5. AlertsOf(r, b)' = {}  BY <1>1, <1>4 DEF AlertsOf
  <2> QED  BY <2>3, <2>4, <2>5 DEF AlertedOnce
<1> QED  BY <1>1, <1>3, <1>4, <1>5, <1>7, <1>9, <1>10, MoverFrame

(* An insert takes every budget on: what was reached stays reached, and    *)
(* who was undisturbed after it was so before.                             *)
LEMMA InsertAlerts ==
  ASSUME Inv, AlertInv, NEW r \in Requests, Insert(r)
  PROVE  AlertInv'
<1>0. TypeOK /\ pc[r] = "insert"  BY DEF Inv, Insert
<1>1. /\ UNCHANGED <<limit, notes, body, seen, writes, group, found, alert, edits>>
      /\ before' = [before EXCEPT ![r] = [b \in Budgets |-> Consumed(b)]]
      /\ \/ pc' = [pc EXCEPT ![r] = "alerts"] /\ todo' = [todo EXCEPT ![r] = Groups(writes[r])]
            /\ faults' = faults
         \/ pc' = [pc EXCEPT ![r] = "failed"] /\ todo' = todo /\ faults' # 0
  <2>1. faults \in Nat /\ (Fault => faults' # 0)  BY <1>0, ConstantsAssumption DEF TypeOK, Fault
  <2> QED  BY <2>1 DEF Insert, Go
<1>2. ASSUME NEW b \in Budgets
      PROVE  /\ Consumed(b)' = Consumed(b) + Added(r, b)
             /\ Consumed(b) \in Nat /\ Consumed(b)' \in Nat
             /\ Consumed(b) <= Consumed(b)'
             /\ \A q \in Requests : Added(q, b) \in Nat /\ Added(q, b)' = Added(q, b)
  <2>1. Consumed(b)' = Consumed(b) + Added(r, b)  BY <1>0, InsertConsumes
  <2>2. Consumed(b) \in Nat /\ \A q \in Requests : Added(q, b) \in Nat  BY <1>0, ConsumedType
  <2>3. \A q : Added(q, b)' = Added(q, b)  BY <1>1 DEF Added, Covered
  <2>4. PICK x \in Nat : x = Consumed(b)  BY <2>2
  <2>5. PICK a \in Nat : a = Added(r, b)  BY <2>2
  <2>6. PICK y : y = Consumed(b)'  OBVIOUS
  <2>7. y = x + a /\ y \in Nat /\ x <= y  BY <2>1, <2>4, <2>5, <2>6
  <2> QED  BY <2>1, <2>2, <2>3, <2>4, <2>6, <2>7
<1>3. \A q : /\ \A b : Matching(q, b)' = Matching(q, b)
             /\ \A b : Single(q, b)' = Single(q, b)
  BY <1>1 DEF Matching, Single, Groups
<1>4. AlertsReached'
  <2>1. ASSUME NEW n \in Alert, Reached(n) PROVE Reached(n)'
    <3>1. n.limit \in Nat /\ n.budget \in Budgets /\ NearThreshold \in 1..99
      BY ConstantsAssumption DEF Alert
    <3>2. PICK c \in Nat, d \in Nat : c = Consumed(n.budget) /\ d = Consumed(n.budget)' /\ c <= d
      BY <1>2, <3>1
    <3>3. StateRank[ExpenseState(n.limit, c, NearThreshold)]
             <= StateRank[ExpenseState(n.limit, d, NearThreshold)]
      BY <3>1, <3>2, StateNeverImproves
    <3>4. \A x : ExpenseState(n.limit, x, NearThreshold) \in {"ok", "near", "at", "over"}
      BY ExpenseStateType
    <3>5. n.state \in {"near", "at", "over"}  BY DEF Alert
    <3>6. \A x \in {"ok", "near", "at", "over"} : StateRank[x] \in Int  BY DEF StateRank
    <3>7. StateRank[n.state] <= StateRank[ExpenseState(n.limit, c, NearThreshold)]
      BY <2>1, <3>2 DEF Reached
    <3>8. StateRank[n.state] <= StateRank[ExpenseState(n.limit, d, NearThreshold)]
      BY <3>3, <3>4, <3>5, <3>6, <3>7
    <3> QED  BY <3>2, <3>8 DEF Reached
  <2>2. \A n \in notes : n \in Alert /\ Reached(n)  BY <1>0 DEF TypeOK, AlertInv, AlertsReached
  <2>3. \A q \in Requests : alert[q] # None => alert[q] \in Alert /\ Reached(alert[q])
    BY <1>0 DEF TypeOK, AlertInv, AlertsReached
  <2>4. \A n \in notes' : Reached(n)'  BY <1>1, <2>1, <2>2
  <2>5. ASSUME NEW q \in Requests, alert[q] # None PROVE Reached(alert[q])'
    <3>1. alert[q] \in Alert /\ Reached(alert[q])  BY <2>3, <2>5
    <3>2. PICK n \in Alert : n = alert[q] /\ Reached(n)  BY <3>1
    <3>3. alert'[q] = n /\ Reached(n)'  BY <1>1, <2>1, <3>2
    <3>4. Reached(alert[q])' = Reached(n)'  BY <1>1, <3>2 DEF Reached
    <3> QED  BY <3>3, <3>4
  <2> QED  BY <1>1, <2>4, <2>5 DEF AlertsReached
<1>5. /\ pc'[r] \in {"alerts", "failed"}
      /\ pc'[r] = "alerts" => todo'[r] = Groups(writes[r])
      /\ pc'[r] = "failed" => todo' = todo /\ faults' # 0
      /\ before'[r] = [b \in Budgets |-> Consumed(b)]
      /\ \A q \in Requests \ {r} : pc'[q] = pc[q] /\ todo'[q] = todo[q] /\ before'[q] = before[q]
  <2>1. before \in [Requests -> [Budgets -> Nat]]
    BY DEF AlertInv
  <2>2. pc \in [Requests -> Pc] /\ todo \in [Requests -> SUBSET (Categories \X Days)]
    BY <1>0 DEF TypeOK
  <2> QED  BY <1>1, <2>1, <2>2
<1>6. found[r] = {} /\ alert[r] = None /\ todo[r] = {} /\ \A n \in notes : n.by # r
  BY <1>0 DEF AlertInv, Work, Note
<1>7. before' \in [Requests -> [Budgets -> Nat]]
  <2>1. [b \in Budgets |-> Consumed(b)] \in [Budgets -> Nat]  BY <1>2
  <2> QED  BY <1>1, <2>1 DEF AlertInv
<1>8. ASSUME NEW q \in Requests PROVE Work(q)'
  <2>1. CASE q = r  BY <1>1, <1>5, <1>6, <2>1 DEF Work
  <2>2. CASE q # r
    <3>1. q \in Requests \ {r} /\ Work(q)  BY <2>2 DEF AlertInv
    <3> QED  BY <1>1, <1>3, <1>5, <3>1 DEF Work
  <2> QED  BY <2>1, <2>2
<1>9. ASSUME NEW q \in Requests PROVE Rows(q)'
  <2>1. CASE q = r
    <3>1. ASSUME NEW b \in Budgets PROVE before'[r][b] + Added(r, b)' <= Consumed(b)'
      <4>1. before'[r][b] = Consumed(b)  BY <1>5
      <4>2. PICK x \in Nat : x = Consumed(b)'  BY <1>2
      <4> QED  BY <1>2, <4>1, <4>2
    <3> QED  BY <1>5, <2>1, <3>1 DEF Rows
  <2>2. CASE q # r
    <3>1. q \in Requests \ {r} /\ Rows(q)  BY <2>2 DEF AlertInv
    <3>2. Inserted(q)' = Inserted(q)  BY <1>5, <3>1 DEF Inserted
    <3>3. ASSUME NEW b \in Budgets, Inserted(q) PROVE before'[q][b] + Added(q, b)' <= Consumed(b)'
      <4>1. before[q][b] + Added(q, b) <= Consumed(b)  BY <3>1, <3>3 DEF Rows
      <4>2. before'[q][b] = before[q][b] /\ before[q][b] \in Nat
        BY <1>5, <3>1 DEF AlertInv
      <4>3. PICK x \in Nat, y \in Nat, a \in Nat :
              x = Consumed(b) /\ y = Consumed(b)' /\ a = Added(q, b) /\ a = Added(q, b)' /\ x <= y
        BY <1>2
      <4>4. before[q][b] + a <= y  BY <4>1, <4>2, <4>3
      <4> QED  BY <4>2, <4>3, <4>4
    <3> QED  BY <1>1, <1>5, <3>1, <3>2, <3>3 DEF Rows
  <2> QED  BY <2>1, <2>2
<1>10. ASSUME NEW n \in notes' PROVE Note(n)'
  <2>1. n \in notes /\ n \in Alert /\ n.by \in Requests \ {r} /\ Note(n)
    BY <1>0, <1>1, <1>6 DEF TypeOK, Alert, AlertInv
  <2>2. PICK q \in Requests \ {r} : q = n.by  BY <2>1
  <2>3. Matching(q, n.budget)' = Matching(q, n.budget) /\ pc'[q] = pc[q]
    BY <1>3, <1>5
  <2> QED  BY <2>1, <2>2, <2>3 DEF Note
<1>11. ASSUME Calm', NEW q \in Requests PROVE Once(q)'
  <2>1. Calm /\ pc'[r] = "alerts"  BY <1>1, <1>5, <1>11 DEF Calm
  <2> SUFFICES ASSUME NEW b \in Alertable, Inserted(q)', Undisturbed(q, b)', Single(q, b)'
               PROVE  AlertedOnce(q, b)'
    BY <1>1 DEF Once, Alertable
  <2>2. b \in Budgets  BY DEF Alertable
  <2>3. AlertsOf(q, b)' = AlertsOf(q, b)  BY <1>1 DEF AlertsOf
  <2>4. CASE q = r
    <3>1. ~Looking(r, b)' /\ ~Announcing(r, b)' /\ AlertsOf(r, b) = {}
      BY <1>1, <1>6 DEF Looking, Announcing, AlertsOf
    <3>2. CASE Matching(r, b) = {}
      <4>1. before'[r][b] = Consumed(b) /\ Added(r, b)' = 0
        BY <1>0, <1>2, <1>5, <2>2, <3>2, NoGroupAddsNothing
      <4>2. ~Waiting(r, b)'  BY <1>3, <3>2 DEF Waiting
      <4>3. PICK c \in Nat : c = Consumed(b)  BY <1>2, <2>2
      <4>4. ~Crossed(r, b)'
        <5>1. c + 0 = c  OBVIOUS
        <5> DEFINE x == StateRank[ExpenseState(limit[b], c, NearThreshold)]
        <5>2. x \in Nat
          <6>1. ExpenseState(limit[b], c, NearThreshold) \in {"ok", "near", "at", "over"}
            BY ExpenseStateType
          <6> QED  BY <6>1 DEF StateRank
        <5>3. Crossed(r, b)' <=> x > x  BY <1>1, <4>1, <4>3, <5>1 DEF Crossed
        <5> QED  BY <5>2, <5>3
      <4> QED  BY <2>3, <2>4, <3>1, <4>2, <4>4 DEF AlertedOnce
    <3>3. CASE Matching(r, b) # {}
      <4>1. Waiting(r, b)'  BY <1>3, <1>5, <2>1, <3>3 DEF Waiting, Matching
      <4> QED  BY <2>3, <2>4, <3>1, <4>1 DEF AlertedOnce
    <3> QED  BY <3>2, <3>3
  <2>5. CASE q # r
    <3>1. q \in Requests \ {r}  BY <2>5
    <3>2. Inserted(q)  BY <1>5, <3>1 DEF Inserted
    <3>3. Undisturbed(q, b)
      <4>1. before[q][b] + Added(q, b) <= Consumed(b)  BY <2>2, <3>2 DEF AlertInv, Rows
      <4>2. before'[q][b] = before[q][b] /\ before[q][b] \in Nat
        BY <1>5, <2>2, <3>1 DEF AlertInv
      <4>3. PICK x \in Nat, y \in Nat, a \in Nat :
              x = Consumed(b) /\ y = Consumed(b)' /\ a = Added(q, b) /\ a = Added(q, b)' /\ x <= y
        BY <1>2, <2>2
      <4>4. y = before[q][b] + a  BY <4>2, <4>3 DEF Undisturbed
      <4>5. x = before[q][b] + a  BY <4>1, <4>2, <4>3, <4>4
      <4> QED  BY <4>3, <4>5 DEF Undisturbed
    <3>4. AlertedOnce(q, b)  BY <1>3, <2>1, <3>2, <3>3 DEF AlertInv, Once
    <3>5. /\ Waiting(q, b)' <=> Waiting(q, b)
          /\ Looking(q, b)' <=> Looking(q, b)
          /\ Announcing(q, b)' <=> Announcing(q, b)
      BY <1>1, <1>3, <1>5, <3>1 DEF Waiting, Looking, Announcing
    <3>6. Crossed(q, b)' <=> Crossed(q, b)
      BY <1>1, <1>2, <1>5, <2>2, <3>1 DEF Crossed
    <3> QED  BY <2>3, <3>4, <3>5, <3>6 DEF AlertedOnce
  <2> QED  BY <2>4, <2>5
<1> QED  BY <1>4, <1>7, <1>8, <1>9, <1>10, <1>11 DEF AlertInv

LEMMA NextGroupAlerts ==
  ASSUME Inv, AlertInv, NEW r \in Requests, NextGroup(r)
  PROVE  AlertInv'
<1>0. TypeOK /\ Work(r) /\ Rows(r) /\ pc[r] = "alerts" /\ found[r] = {}
  BY DEF Inv, AlertInv, NextGroup
<1>1. UNCHANGED <<spent, limit, notes, pc, body, seen, writes, before, alert, faults, edits>>
  BY DEF NextGroup
<1> DEFINE F(g) == {[budget |-> b, limit |-> limit[b]] : b \in
                      {x \in Budgets : /\ CategoryType[g[1]] = "expense"
                                       /\ limit[x] # Absent
                                       /\ CategoryOf[x] = g[1]
                                       /\ g[2] \in Window[x]}}
<1>2. PICK g \in todo[r] :
        /\ todo' = [todo EXCEPT ![r] = @ \ {g}]
        /\ group' = [group EXCEPT ![r] = g]
        /\ found' = [found EXCEPT ![r] = F(g)]
  BY DEF NextGroup
<1>3. /\ todo'[r] = todo[r] \ {g} /\ group'[r] = g /\ found'[r] = F(g)
      /\ \A q \in Requests \ {r} : /\ todo'[q] = todo[q] /\ group'[q] = group[q]
                                   /\ found'[q] = found[q]
  BY <1>0, <1>2 DEF TypeOK
<1>4. \A b : /\ Matching(r, b)' = Matching(r, b)
             /\ Single(r, b)' = Single(r, b)
             /\ AlertsOf(r, b)' = AlertsOf(r, b)
  BY <1>1 DEF Matching, Single, AlertsOf, Groups
<1>5. ASSUME NEW e \in F(g)
      PROVE  /\ g \in Matching(r, e.budget) /\ e.budget \in Budgets
             /\ e.limit = limit[e.budget]
  <2>1. g \in Groups(writes[r])  BY <1>0, <1>2 DEF Work
  <2> QED  BY <2>1 DEF Matching
<1>6. Work(r)'
  <2> HIDE DEF F
  <2> QED  BY <1>0, <1>1, <1>3, <1>4, <1>5 DEF Work
<1>7. Rows(r)'
  <2>1. \A b : Added(r, b)' = Added(r, b)  BY <1>1 DEF Added, Covered
  <2> QED  BY <1>0, <1>1, <2>1, ConsumedKept DEF Rows, Inserted
<1>8. ASSUME Calm' PROVE Once(r)'
  <2> SUFFICES ASSUME NEW b \in Alertable, Undisturbed(r, b)', Single(r, b)'
               PROVE  AlertedOnce(r, b)'
    BY <1>1 DEF Once, Alertable
  <2>1. Calm  BY <1>1, <1>8 DEF Calm
  <2>2. Added(r, b)' = Added(r, b)  BY <1>1 DEF Added, Covered
  <2>3. Undisturbed(r, b)  BY <1>1, <2>2, ConsumedKept DEF Undisturbed
  <2>4. AlertedOnce(r, b)  BY <1>0, <1>4, <2>1, <2>3 DEF AlertInv, Once, Inserted
  <2>5. Crossed(r, b)' <=> Crossed(r, b)  BY <1>1, <2>2 DEF Crossed
  <2>6. ~Announcing(r, b) /\ ~Announcing(r, b)' /\ ~Looking(r, b)
    BY <1>0, <1>1 DEF Announcing, Looking, Work
  <2>7. CASE g \in Matching(r, b)
    <3>1. b \in Budgets /\ limit[b] # Absent /\ CategoryType[CategoryOf[b]] = "expense"
      BY ConstantsAssumption DEF Alertable
    <3>2. [budget |-> b, limit |-> limit[b]] \in F(g)  BY <2>7, <3>1 DEF Matching
    <3>3. Looking(r, b)'
      <4> HIDE DEF F
      <4> QED  BY <1>3, <3>2 DEF Looking
    <3>4. Waiting(r, b)  BY <2>7 DEF Waiting
    <3>5. ~Waiting(r, b)'  BY <1>3, <1>4, <2>7 DEF Waiting, Single
    <3> QED  BY <1>4, <2>4, <2>6, <3>3, <3>4, <3>5 DEF AlertedOnce
  <2>8. CASE g \notin Matching(r, b)
    <3>1. ~Looking(r, b)'
      <4> HIDE DEF F
      <4> QED  BY <1>3, <1>5, <2>8 DEF Looking
    <3>2. Waiting(r, b)' <=> Waiting(r, b)  BY <1>3, <1>4, <2>8 DEF Waiting
    <3> QED  BY <1>4, <2>4, <2>5, <2>6, <3>1, <3>2 DEF AlertedOnce
  <2> QED  BY <2>7, <2>8
<1>9. \A n \in notes : n.by = r => Note(n)'
  BY <1>0, <1>1, <1>4 DEF AlertInv, Note
<1>10. alert'[r] = None  BY <1>0, <1>1 DEF Work
<1> QED  BY <1>1, <1>3, <1>6, <1>7, <1>8, <1>9, <1>10, MoverFrame

(* generate_budget_alerts compares with the state the budget would have    *)
(* without the group: for an undisturbed budget, its state before the      *)
(* request.                                                                *)
LEMMA CrossesIsCrossed ==
  ASSUME TypeOK, AlertInv, NEW r \in Requests, NEW b \in Alertable, NEW e,
         e.budget = b, e.limit = limit[b], group[r] \in Matching(r, b), Single(r, b),
         Undisturbed(r, b)
  PROVE  Crosses(ExpenseState(e.limit, ConsumedAfter(r, e.budget) - NewAmount(r), NearThreshold),
                 ExpenseState(e.limit, ConsumedAfter(r, e.budget), NearThreshold)) <=> Crossed(r, b)
<1>1. b \in Budgets  BY DEF Alertable
<1>2. NewAmount(r) = Added(r, b)  BY <1>1, NewIsAdded
<1>3. PICK a \in Nat, x \in Nat : a = Added(r, b) /\ x = before[r][b]
  BY <1>1, ConsumedType DEF AlertInv
<1>4. Consumed(b) = x + a  BY <1>3 DEF Undisturbed
<1>5. (x + a) - a = x  OBVIOUS
<1>6. /\ ConsumedAfter(r, e.budget) - NewAmount(r) = x
      /\ ConsumedAfter(r, e.budget) = x + a
  BY <1>2, <1>3, <1>4, <1>5 DEF ConsumedAfter
<1> DEFINE from == ExpenseState(limit[b], x, NearThreshold)
           to   == ExpenseState(limit[b], x + a, NearThreshold)
<1>7. Crossed(r, b) <=> StateRank[to] > StateRank[from]  BY <1>3 DEF Crossed
<1>8. from \in {"ok", "near", "at", "over"} /\ to \in {"ok", "near", "at", "over"}
  BY ExpenseStateType
<1> HIDE DEF from, to
<1>9. StateRank[to] > StateRank[from] => to # "ok"  BY <1>8 DEF StateRank
<1>10. Crosses(from, to) <=> StateRank[to] > StateRank[from]  BY <1>9 DEF Crosses
<1> QED  BY <1>6, <1>7, <1>10 DEF from, to

LEMMA EvaluateAlerts ==
  ASSUME Inv, SumsInv, AlertInv, NEW r \in Requests, NEW e \in found[r], Evaluate(r, e)
  PROVE  AlertInv'
<1> DEFINE from == ExpenseState(e.limit, ConsumedAfter(r, e.budget) - NewAmount(r), NearThreshold)
           to   == ExpenseState(e.limit, ConsumedAfter(r, e.budget), NearThreshold)
           n    == [by |-> r, day |-> group[r][2], budget |-> e.budget, limit |-> e.limit,
                    state |-> to]
           raises == e.limit # None /\ Crosses(from, to)
<1>0. TypeOK /\ Work(r) /\ Rows(r) /\ pc[r] = "alerts"
  BY DEF Inv, AlertInv, Evaluate
<1>1. /\ UNCHANGED <<spent, limit, notes, body, seen, writes, before, todo, group, faults, edits>>
      /\ found' = [found EXCEPT ![r] = @ \ {e}]
      /\ IF raises THEN pc' = [pc EXCEPT ![r] = "notify"] /\ alert' = [alert EXCEPT ![r] = n]
                   ELSE pc' = pc /\ alert' = alert
  BY DEF Evaluate, Go
<1>2. n.by = r /\ n.budget = e.budget /\ Reached(n)
  <2>1. n.by = r /\ n.budget = e.budget /\ n.limit = e.limit /\ n.state = to  OBVIOUS
  <2>2. to \in {"ok", "near", "at", "over"}  BY ExpenseStateType
  <2>3. StateRank[to] \in Int
    <3> HIDE DEF to
    <3> QED  BY <2>2 DEF StateRank
  <2>4. to = ExpenseState(e.limit, Consumed(e.budget), NearThreshold)  BY DEF ConsumedAfter
  <2>5. StateRank[to] <= StateRank[to]
    <3> HIDE DEF to
    <3> QED  BY <2>3
  <2> HIDE DEF to, n
  <2> QED  BY <2>1, <2>4, <2>5 DEF Reached
<1> HIDE DEF n, from, to
<1>3. /\ found'[r] = found[r] \ {e}
      /\ raises => pc'[r] = "notify" /\ alert'[r] = n
      /\ ~raises => pc'[r] = "alerts" /\ alert'[r] = None
      /\ \A q \in Requests \ {r} : /\ pc'[q] = pc[q] /\ found'[q] = found[q]
                                   /\ alert'[q] = alert[q]
  BY <1>0, <1>1 DEF TypeOK, Work
<1>4. \A b : /\ Matching(r, b)' = Matching(r, b)
             /\ Single(r, b)' = Single(r, b)
             /\ AlertsOf(r, b)' = AlertsOf(r, b)
  BY <1>1 DEF Matching, Single, AlertsOf, Groups
<1>5. group[r] \in Matching(r, e.budget) /\ (edits = 0 => e.limit = limit[e.budget])
  BY <1>0 DEF Work
<1>6. Work(r)'
  <2>1. todo'[r] \subseteq Groups(writes'[r])  BY <1>0, <1>1 DEF Work
  <2>2. \A x \in found'[r] : /\ group'[r] \in Matching(r, x.budget)'
                             /\ edits' = 0 => x.limit = limit'[x.budget]
    BY <1>0, <1>1, <1>3, <1>4 DEF Work
  <2>3. raises => alert'[r].by = r /\ group'[r] \in Matching(r, alert[r].budget)'
    BY <1>1, <1>2, <1>3, <1>5 DEF Matching, Groups
  <2> HIDE DEF raises
  <2> QED  BY <1>3, <2>1, <2>2, <2>3 DEF Work
<1>7. Rows(r)'
  <2>1. \A b : Added(r, b)' = Added(r, b)  BY <1>1 DEF Added, Covered
  <2>2. Inserted(r) /\ pc'[r] \notin {"idle", "read"}  BY <1>0, <1>3 DEF Inserted
  <2> QED  BY <1>0, <1>1, <2>1, <2>2, ConsumedKept DEF Rows
<1>8. ASSUME Calm' PROVE Once(r)'
  <2> SUFFICES ASSUME NEW b \in Alertable, Undisturbed(r, b)', Single(r, b)'
               PROVE  AlertedOnce(r, b)'
    BY <1>1 DEF Once, Alertable
  <2>1. Calm /\ edits = 0  BY <1>1, <1>8 DEF Calm
  <2>2. Added(r, b)' = Added(r, b)  BY <1>1 DEF Added, Covered
  <2>3. Undisturbed(r, b)  BY <1>1, <2>2, ConsumedKept DEF Undisturbed
  <2>4. AlertedOnce(r, b)  BY <1>0, <1>4, <2>1, <2>3 DEF AlertInv, Once, Inserted
  <2>5. Crossed(r, b)' <=> Crossed(r, b)  BY <1>1, <2>2 DEF Crossed
  <2>6. ~Announcing(r, b)  BY <1>0 DEF Announcing, Work
  <2>7. Waiting(r, b)' <=> Waiting(r, b)  BY <1>1, <1>4 DEF Waiting
  <2>8. CASE e.budget = b
    <3>1. Looking(r, b)  BY <2>8 DEF Looking
    <3>2. ~Looking(r, b)'
      <4>1. \A x \in found[r] : x.budget = b => x = e
        <5>1. \A x \in found[r] : x \in Found /\ x.limit = limit[x.budget]
          BY <1>0, <2>1 DEF TypeOK, Work
        <5> QED  BY <2>8, <5>1 DEF Found
      <4> QED  BY <1>3, <4>1 DEF Looking
    <3>3. raises <=> Crossed(r, b)
      <4>1. limit[b] # None  BY ConstantsAssumption DEF Alertable
      <4>2. Crosses(from, to) <=> Crossed(r, b)
        BY <1>0, <1>4, <1>5, <2>1, <2>3, <2>8, CrossesIsCrossed DEF from, to
      <4> QED  BY <1>5, <2>1, <2>8, <4>1, <4>2
    <3>4. Announcing(r, b)' <=> raises
      <4>1. raises => alert'[r] # None /\ alert'[r].budget = b
        <5>1. ASSUME raises PROVE n # None
          <6>1. AlertKnown'  BY EvaluateInv DEF Inv
          <6>2. pc'[r] = "notify" /\ alert'[r] = n  BY <1>3, <5>1
          <6> QED  BY <6>1, <6>2, NoneAssumption DEF AlertKnown
        <5> QED  BY <1>2, <1>3, <2>8, <5>1
      <4> QED  BY <1>3, <4>1 DEF Announcing
    <3> QED  BY <1>4, <2>4, <2>5, <2>7, <3>1, <3>2, <3>3, <3>4 DEF AlertedOnce
  <2>9. CASE e.budget # b
    <3>1. Looking(r, b)' <=> Looking(r, b)  BY <1>3, <2>9 DEF Looking
    <3>2. ~Announcing(r, b)'  BY <1>2, <1>3, <2>9 DEF Announcing
    <3> QED  BY <1>4, <2>4, <2>5, <2>6, <2>7, <3>1, <3>2 DEF AlertedOnce
  <2> QED  BY <2>8, <2>9
<1>9. \A x \in notes : x.by = r => Note(x)'
  BY <1>0, <1>1, <1>3, <1>4 DEF AlertInv, Note
<1>10. alert'[r] # None => Reached(alert'[r])  BY <1>2, <1>3
<1> QED  BY <1>1, <1>3, <1>6, <1>7, <1>8, <1>9, <1>10, MoverFrame

(* The alert is written, or may have been when the call fails. *)
LEMMA NotifyAlerts ==
  ASSUME Inv, AlertInv, NEW r \in Requests, Notify(r)
  PROVE  AlertInv'
<1>0. TypeOK /\ Work(r) /\ Rows(r) /\ pc[r] = "notify" /\ alert[r] \in Alert
  BY DEF Inv, AlertKnown, AlertInv, Notify
<1>1. UNCHANGED <<spent, limit, body, seen, writes, before, todo, group, found, faults, edits>>
  BY DEF Notify
<1>2. PICK n \in Alert : n = alert[r] /\ n # None  BY <1>0, NoneAssumption
<1>3. /\ pc'[r] = "alerts" /\ alert'[r] = None /\ notes' = notes \cup {n}
      /\ \A q \in Requests \ {r} : pc'[q] = pc[q] /\ alert'[q] = alert[q]
  BY <1>0, <1>2 DEF TypeOK, Notify, Go
<1>4. \A b : /\ Matching(r, b)' = Matching(r, b)
             /\ Single(r, b)' = Single(r, b)
  BY <1>1 DEF Matching, Single, Groups
<1>5. n.by = r /\ group[r] \in Matching(r, n.budget) /\ Reached(n)
  <2>1. Reached(alert[r])  BY <1>2 DEF AlertInv, AlertsReached
  <2> QED  BY <1>0, <1>2, <2>1 DEF Work
<1>6. Work(r)'
  BY <1>0, <1>1, <1>3, <1>4 DEF Work
<1>7. Rows(r)'
  <2>1. \A b : Added(r, b)' = Added(r, b)  BY <1>1 DEF Added, Covered
  <2>2. Inserted(r) /\ pc'[r] \notin {"idle", "read"}  BY <1>0, <1>3 DEF Inserted
  <2> QED  BY <1>0, <1>1, <2>1, <2>2, ConsumedKept DEF Rows
<1>8. ASSUME Calm' PROVE Once(r)'
  <2> SUFFICES ASSUME NEW b \in Alertable, Undisturbed(r, b)', Single(r, b)'
               PROVE  AlertedOnce(r, b)'
    BY <1>1 DEF Once, Alertable
  <2>1. Calm  BY <1>1, <1>8 DEF Calm
  <2>2. Added(r, b)' = Added(r, b)  BY <1>1 DEF Added, Covered
  <2>3. Undisturbed(r, b)  BY <1>1, <2>2, ConsumedKept DEF Undisturbed
  <2>4. AlertedOnce(r, b)  BY <1>0, <1>4, <2>1, <2>3 DEF AlertInv, Once, Inserted
  <2>5. Crossed(r, b)' <=> Crossed(r, b)  BY <1>1, <2>2 DEF Crossed
  <2>6. ~Announcing(r, b)' /\ (Looking(r, b)' <=> Looking(r, b)) /\ (Waiting(r, b)' <=> Waiting(r, b))
    BY <1>1, <1>3, <1>4 DEF Announcing, Looking, Waiting
  <2>7. CASE n.budget = b
    <3>1. Announcing(r, b)  BY <1>2, <2>7 DEF Announcing
    <3>2. AlertsOf(r, b)' = AlertsOf(r, b) \cup {n}  BY <1>3, <1>5, <2>7 DEF AlertsOf
    <3>3. AlertsOf(r, b) = {} /\ Crossed(r, b) /\ ~Waiting(r, b) /\ ~Looking(r, b)
      BY <2>4, <3>1 DEF AlertedOnce
    <3>4. AlertsOf(r, b)' = {n}  BY <3>2, <3>3
    <3> QED  BY <2>5, <2>6, <3>3, <3>4 DEF AlertedOnce
  <2>8. CASE n.budget # b
    <3>1. ~Announcing(r, b)  BY <1>2, <2>8 DEF Announcing
    <3>2. AlertsOf(r, b)' = AlertsOf(r, b)  BY <1>3, <2>8 DEF AlertsOf
    <3> QED  BY <2>4, <2>5, <2>6, <3>1, <3>2 DEF AlertedOnce
  <2> QED  BY <2>7, <2>8
<1>9. \A x \in notes' : x.by = r => Note(x)'
  <2>1. \A x \in notes : x.by = r => Note(x)'
    BY <1>0, <1>3, <1>4 DEF AlertInv, Note
  <2>2. Note(n)'  BY <1>3, <1>4, <1>5 DEF Note
  <2> QED  BY <1>3, <2>1, <2>2
<1> QED  BY <1>1, <1>3, <1>5, <1>6, <1>7, <1>8, <1>9, MoverFrame

LEMMA EndAlerts ==
  ASSUME Inv, AlertInv, NEW r \in Requests,
         AlertsDone(r) \/ AlertsFail(r) \/ Reread(r) \/ RequestFails(r)
  PROVE  AlertInv'
<1>0. TypeOK /\ Work(r) /\ Rows(r)  BY DEF Inv, AlertInv
<1>1. /\ UNCHANGED <<spent, limit, body, seen, writes, before, group, edits>>
      /\ \E p \in {"reread", "done", "failed"} :
            /\ pc' = [pc EXCEPT ![r] = p]
            /\ p # "failed" => pc[r] \in {"alerts", "notify", "reread"}
      /\ notes' = notes \/ (pc[r] \in {"alerts", "notify"} /\ alert[r] # None /\ notes' = notes \cup {alert[r]})
  BY DEF AlertsDone, AlertsFail, Reread, RequestFails, AfterAlerts, Go
<1>2. /\ faults' # 0
      \/ /\ faults' = faults /\ notes' = notes
         /\ pc[r] \in {"alerts", "reread"} /\ pc'[r] \in {"reread", "done"}
  <2>1. faults \in Nat /\ (Fault => faults' # 0)  BY <1>0, ConstantsAssumption DEF TypeOK, Fault
  <2> QED  BY <1>0, <2>1 DEF TypeOK, AlertsDone, AlertsFail, Reread, RequestFails, AfterAlerts, Go
<1>3. /\ todo'[r] = {} /\ found'[r] = {} /\ alert'[r] = None
      /\ \A q \in Requests \ {r} : /\ todo'[q] = todo[q] /\ found'[q] = found[q]
                                   /\ alert'[q] = alert[q]
  BY <1>0 DEF TypeOK, Work, AlertsDone, AlertsFail, Reread, RequestFails
<1>4. /\ pc'[r] \in {"reread", "done", "failed"}
      /\ pc'[r] # "failed" => pc[r] \in {"alerts", "notify", "reread"}
      /\ \A q \in Requests \ {r} : pc'[q] = pc[q]
  BY <1>0, <1>1 DEF TypeOK
<1>5. \A b : Matching(r, b)' = Matching(r, b) /\ Single(r, b)' = Single(r, b)
  BY <1>1 DEF Matching, Single, Groups
<1>6. Work(r)'  BY <1>3, <1>4 DEF Work
<1>7. \A b : Added(r, b)' = Added(r, b)  BY <1>1 DEF Added, Covered
<1>8. Rows(r)'
  <2>1. Inserted(r)' => Inserted(r)  BY <1>4 DEF Inserted
  <2> QED  BY <1>0, <1>1, <1>4, <1>7, <2>1, ConsumedKept DEF Rows
<1>9. ASSUME Calm' PROVE Once(r)'
  <2>1. /\ faults' = faults /\ notes' = notes
        /\ pc[r] \in {"alerts", "reread"} /\ pc'[r] \in {"reread", "done"}
    BY <1>2, <1>9 DEF Calm
  <2>2. todo[r] = {} /\ found[r] = {} /\ alert[r] = None
    <3>1. AlertsDone(r) \/ Reread(r)
      <4>1. faults \in Nat /\ ~Fault  BY <1>0, <2>1, ConstantsAssumption DEF TypeOK, Fault
      <4> QED  BY <4>1 DEF AlertsFail, RequestFails
    <3> QED  BY <1>0, <3>1 DEF AlertsDone, Reread, Work
  <2> SUFFICES ASSUME NEW b \in Alertable, Undisturbed(r, b)', Single(r, b)'
               PROVE  AlertedOnce(r, b)'
    BY <1>1 DEF Once, Alertable
  <2>3. Calm /\ Inserted(r)  BY <1>1, <1>9, <2>1 DEF Calm, Inserted
  <2>4. Undisturbed(r, b)  BY <1>1, <1>7, ConsumedKept DEF Undisturbed
  <2>5. AlertedOnce(r, b)  BY <1>5, <2>3, <2>4 DEF AlertInv, Once
  <2>6. Crossed(r, b)' <=> Crossed(r, b)  BY <1>1, <1>7 DEF Crossed
  <2>7. AlertsOf(r, b)' = AlertsOf(r, b)  BY <2>1 DEF AlertsOf
  <2>8. /\ Waiting(r, b)' <=> Waiting(r, b)
        /\ Looking(r, b)' <=> Looking(r, b)
        /\ Announcing(r, b)' <=> Announcing(r, b)
    BY <1>3, <1>5, <2>2 DEF Waiting, Looking, Announcing
  <2> QED  BY <2>5, <2>6, <2>7, <2>8 DEF AlertedOnce
<1>10. ASSUME NEW n \in notes' \ notes PROVE n.by = r /\ Reached(n) /\ Note(n)'
  <2>1. n = alert[r] /\ alert[r] # None /\ pc[r] = "notify"  BY <1>0, <1>1, <1>10 DEF Work
  <2>2. Reached(alert[r])  BY <2>1 DEF AlertInv, AlertsReached
  <2>3. n.by = r /\ group[r] \in Matching(r, n.budget)  BY <1>0, <2>1 DEF Work
  <2> QED  BY <1>4, <1>5, <2>1, <2>2, <2>3 DEF Note
<1>11. ASSUME NEW n \in notes, n.by = r PROVE Note(n)'
  BY <1>4, <1>5, <1>11 DEF AlertInv, Note
<1>12. notes \subseteq notes' /\ \A n \in notes' : n.by = r => Note(n)'
  BY <1>1, <1>10, <1>11
<1>13. faults' = 0 => faults = 0  BY <1>2
<1> QED  BY <1>1, <1>3, <1>4, <1>6, <1>8, <1>9, <1>10, <1>12, <1>13, MoverFrame

(* An edited limit changes nothing about alerts derived from the old one.  *)
LEMMA SetLimitAlerts ==
  ASSUME Inv, AlertInv, NEW b \in Budgets, NEW l \in Limits \cup {None}, SetLimit(b, l)
  PROVE  AlertInv'
<1>1. UNCHANGED <<spent, notes, requestVars>> /\ edits' # 0
  <2>1. edits \in Nat  BY ConstantsAssumption DEF Inv, TypeOK
  <2> QED  BY <2>1 DEF SetLimit
<1>2. AlertsReached'
  <2>1. \A n : Reached(n)' = Reached(n)  BY <1>1, ConsumedKept DEF Reached
  <2> QED  BY <1>1, <2>1 DEF AlertInv, AlertsReached, requestVars
<1>3. \A q \in Requests : Work(q)' /\ Rows(q)'
  BY <1>1, Bystander DEF requestVars
<1>4. \A n \in notes' : Note(n)'
  <2>1. \A n : Note(n)' = Note(n)  BY <1>1 DEF Note, Matching, Groups, requestVars
  <2> QED  BY <1>1, <2>1 DEF AlertInv
<1> QED  BY <1>1, <1>2, <1>3, <1>4 DEF AlertInv, Calm, requestVars

LEMMA AlertNext == Inv /\ SumsInv /\ AlertInv /\ [Next]_vars => AlertInv'
<1> SUFFICES ASSUME Inv, SumsInv, AlertInv, [Next]_vars PROVE AlertInv'
  OBVIOUS
<1>1. CASE UNCHANGED vars
  <2>1. UNCHANGED <<spent, limit, notes, pc, writes, before, todo, group, found, alert, faults, edits>>
    BY <1>1 DEF vars, requestVars
  <2>2. AlertsReached'
    <3>1. \A n : Reached(n)' = Reached(n)  BY <2>1, ConsumedKept DEF Reached
    <3> QED  BY <2>1, <3>1 DEF AlertInv, AlertsReached
  <2>3. \A q \in Requests : Work(q)' /\ Rows(q)' /\ (Once(q) => Once(q)')
    BY <2>1, Bystander
  <2>4. \A n : Note(n)' = Note(n)  BY <2>1 DEF Note, Matching, Groups
  <2> QED  BY <2>1, <2>2, <2>3, <2>4 DEF AlertInv, Calm
<1> QED
  BY <1>1, PostAlerts, ReadAlerts, InsertAlerts, NextGroupAlerts, EvaluateAlerts, NotifyAlerts,
     EndAlerts, SetLimitAlerts DEF Next

LEMMA AlertInvariance == Spec => []AlertInv
  BY AlertInit, AlertNext, Invariance, PTL DEF Spec

(* No alert of generate_budget_alerts cries wolf, whatever is inserted,    *)
(* fails or is edited between its reads and its INSERT: the consumption it *)
(* announces was reached, and still is.                                    *)
THEOREM AlertsNeverCryWolf == Spec => []AlertsAreTrue
<1>1. Inv /\ AlertInv => AlertsAreTrue
  <2> SUFFICES ASSUME Inv, AlertInv, NEW n \in notes
               PROVE  StateRank[ExpenseState(n.limit, Consumed(n.budget), NearThreshold)]
                         >= StateRank[n.state]
    BY DEF AlertsAreTrue
  <2>1. Reached(n) /\ n \in Alert  BY DEF Inv, TypeOK, AlertInv, AlertsReached
  <2>2. ExpenseState(n.limit, Consumed(n.budget), NearThreshold) \in {"ok", "near", "at", "over"}
        /\ n.state \in {"near", "at", "over"}
    BY <2>1, ExpenseStateType DEF Alert
  <2>3. \A x \in {"ok", "near", "at", "over"} : StateRank[x] \in Int  BY DEF StateRank
  <2> QED  BY <2>1, <2>2, <2>3 DEF Reached
<1> QED  BY <1>1, Invariance, AlertInvariance, PTL

(* A request's groups for a budget are one per day at most, so finitely    *)
(* many.                                                                   *)
LEMMA MatchingFinite == ASSUME TypeOK, NEW r \in Requests, NEW b \in Budgets
                        PROVE  IsFiniteSet(Matching(r, b))
<1> DEFINE f == [t \in Txns |-> <<CategoryOf[b], Day[t]>>]
           S == {f[t] : t \in Txns}
<1>1. f \in Surjection(Txns, S)  BY DEF Surjection
<1>2. IsFiniteSet(S)
  <2> HIDE DEF f, S
  <2> QED  BY <1>1, FiniteTables, FS_Surjection
<1>3. Matching(r, b) \in SUBSET S
  <2> SUFFICES ASSUME NEW g \in Matching(r, b) PROVE g \in S  OBVIOUS
  <2>1. g \in Categories \X Days /\ g[1] = CategoryOf[b]  BY DEF Matching, Groups
  <2>2. PICK t \in Txns : Day[t] = g[2]  BY DEF Matching, Groups
  <2>3. g = f[t]  BY <2>1, <2>2
  <2> QED  BY <2>3
<1> HIDE DEF S
<1> QED  BY <1>2, <1>3, FS_Subset

(* A request that ran undisturbed has raised exactly one alert for each    *)
(* budget that a single group of its rows took up a state, and none for    *)
(* the others, however it interleaved with requests for other budgets.     *)
THEOREM AlertsExactlyOnce == Spec => []OneAlertUndisturbed
<1>1. Inv /\ AlertInv => OneAlertUndisturbed
  <2> SUFFICES ASSUME Inv, AlertInv, faults = 0, edits = 0, NEW r \in Requests, pc[r] = "done",
                      NEW b \in Alertable, Undisturbed(r, b), Cardinality(Matching(r, b)) <= 1
               PROVE  AlertsFor(r, b) = IF Crossed(r, b) THEN 1 ELSE 0
    BY DEF OneAlertUndisturbed, Undisturbed, Matching
  <2>1. TypeOK /\ b \in Budgets /\ Inserted(r) /\ Calm  BY DEF Inv, Alertable, Inserted, Calm
  <2>2. Single(r, b)
    <3> SUFFICES ASSUME NEW g \in Matching(r, b), NEW h \in Matching(r, b), g # h PROVE FALSE
      BY DEF Single
    <3>1. IsFiniteSet(Matching(r, b))  BY <2>1, MatchingFinite
    <3>2. IsFiniteSet(Matching(r, b) \ {g}) /\ Cardinality(Matching(r, b) \ {g}) = Cardinality(Matching(r, b)) - 1
      BY <3>1, FS_RemoveElement
    <3>3. Cardinality(Matching(r, b)) \in Nat /\ Cardinality(Matching(r, b) \ {g}) \in Nat
      BY <3>1, <3>2, FS_CardinalityType
    <3>4. Cardinality(Matching(r, b) \ {g}) = 0  BY <3>2, <3>3
    <3>5. Matching(r, b) \ {g} = {}  BY <3>2, <3>4, FS_EmptySet
    <3> QED  BY <3>5
  <2>3. AlertedOnce(r, b)  BY <2>1, <2>2 DEF AlertInv, Once
  <2>4. ~Waiting(r, b) /\ ~Looking(r, b) /\ ~Announcing(r, b)
    BY DEF AlertInv, Work, Waiting, Looking, Announcing
  <2>5. CASE Crossed(r, b)
    <3>1. PICK n : AlertsOf(r, b) = {n}  BY <2>3, <2>4, <2>5 DEF AlertedOnce
    <3>2. Cardinality({n}) = 1  BY FS_Singleton
    <3> QED  BY <2>5, <3>1, <3>2 DEF AlertsFor, AlertsOf
  <2>6. CASE ~Crossed(r, b)
    <3>1. AlertsOf(r, b) = {}  BY <2>3, <2>6 DEF AlertedOnce
    <3> QED  BY <2>6, <3>1, FS_EmptySet DEF AlertsFor, AlertsOf
  <2> QED  BY <2>5, <2>6
<1> QED  BY <1>1, Invariance, AlertInvariance, PTL
=============================================================================
