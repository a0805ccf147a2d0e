----------------------------- MODULE BudgetPlans -----------------------------
(***************************************************************************)
(* Creating a budget plan (app/repositories/budget_plans.py:               *)
(* create_budget_plan, called by POST /budget-plans): the overlap check    *)
(* and the INSERT are two statements, outside any database transaction.    *)
(*                                                                         *)
(* The plan's window is kept in TIMESTAMPTZ columns.  A stored instant is  *)
(* cast to its UTC date, there and wherever consumption is scoped by the   *)
(* window; the window in the request reaches the check as DATE parameters, *)
(* which carry the calendar date of the client's own UTC offset.  An       *)
(* instant is a number of equal parts of a day.  A created plan is named   *)
(* by the request that created it.                                         *)
(***************************************************************************)
EXTENDS Integers, FiniteSets

CONSTANTS Requests, Users, Periods, NoBody,
          Offsets,      \* UTC offsets of the clients' datetimes
          PerDay,       \* instants of a day
          MaxInstant,   \* bound: the last instant of a window
          MaxInFlight,  \* bound: requests served at the same time
          MaxFaults     \* bound: statements that fail or lose their reply

Body == [user : Users, period : Periods, offset : Offsets,
         starts_at : 0..MaxInstant, ends_at : 0..MaxInstant]

ASSUME ClientsAssumption ==
    /\ Offsets \subseteq Int
    /\ PerDay \in Nat \ {0} /\ MaxInstant \in Nat
    /\ NoBody \notin Body
    /\ MaxInFlight \in Nat /\ MaxFaults \in Nat

VARIABLES
    pc,     \* where each request stands
    body,   \* its payload
    plans,  \* the requests whose row is in budget_plans
    met,    \* history: the plans its overlap check was made against
    faults

creationVars == <<pc, body, plans, met, faults>>

Busy == {"check", "insert"}
Pc   == {"idle", "invalid", "conflict", "created", "failed"} \cup Busy

CreationTypeOK ==
    /\ pc \in [Requests -> Pc]
    /\ body \in [Requests -> Body \cup {NoBody}]
    /\ \A r \in Requests : pc[r] \notin {"idle", "invalid"} => body[r] \in Body
    /\ \A p \in plans : body[p] \in Body /\ body[p].starts_at < body[p].ends_at
    /\ plans \subseteq Requests
    /\ met \in [Requests -> SUBSET Requests]
    /\ faults \in 0..MaxFaults

CreationInit ==
    /\ pc = [r \in Requests |-> "idle"]
    /\ body = [r \in Requests |-> NoBody]
    /\ plans = {}
    /\ met = [r \in Requests |-> {}]
    /\ faults = 0

-----------------------------------------------------------------------------
(* A stored instant cast to a date, and a datetime of the request bound to *)
(* a DATE parameter.                                                       *)
UtcDate(instant)         == instant \div PerDay
OwnDate(instant, offset) == (instant + offset) \div PerDay

(* A plan of the same user and period whose window meets that of b.        *)
Wrong_AnotherDayIsFree(plan, b) ==
    /\ plan.user = b.user /\ plan.period = b.period
    /\ UtcDate(plan.starts_at) < OwnDate(b.ends_at, b.offset)
    /\ OwnDate(b.starts_at, b.offset) <= UtcDate(plan.ends_at)
Wrong_AnyPeriod(plan, b) ==
    /\ plan.user = b.user
    /\ UtcDate(plan.starts_at) <= OwnDate(b.ends_at, b.offset)
    /\ OwnDate(b.starts_at, b.offset) <= UtcDate(plan.ends_at)
Conflicts(plan, b) ==
    /\ plan.user = b.user /\ plan.period = b.period
    /\ UtcDate(plan.starts_at) <= OwnDate(b.ends_at, b.offset)
    /\ OwnDate(b.starts_at, b.offset) <= UtcDate(plan.ends_at)

Fault == faults < MaxFaults /\ faults' = faults + 1

(* The payload's validator answers 422 for an empty window. *)
WindowValid(b) == b.ends_at > b.starts_at

PostPlan(r, b) ==
    /\ pc[r] = "idle"
    /\ Cardinality({q \in Requests : pc[q] \in Busy}) < MaxInFlight
    /\ IF WindowValid(b)
       THEN pc' = [pc EXCEPT ![r] = "check"] /\ body' = [body EXCEPT ![r] = b]
       ELSE pc' = [pc EXCEPT ![r] = "invalid"] /\ UNCHANGED body
    /\ UNCHANGED <<plans, met, faults>>

(* SELECT ... LIMIT 1: a conflicting plan answers 409. *)
CheckOverlap(r) ==
    /\ pc[r] = "check"
    /\ met' = [met EXCEPT ![r] = plans]
    /\ pc' = [pc EXCEPT ![r] =
                IF \E p \in plans : Conflicts(body[p], body[r]) THEN "conflict" ELSE "insert"]
    /\ UNCHANGED <<body, plans, faults>>

(* INSERT, with no constraint on the window: 201, or 500 when its reply is *)
(* lost.                                                                   *)
InsertPlan(r) ==
    /\ pc[r] = "insert"
    /\ plans' = plans \cup {r}
    /\ \/ pc' = [pc EXCEPT ![r] = "created"] /\ UNCHANGED faults
       \/ pc' = [pc EXCEPT ![r] = "failed"] /\ Fault
    /\ UNCHANGED <<body, met>>

(* The statement fails without effect, or the API process stops. *)
RequestFails(r) ==
    /\ pc[r] \in Busy
    /\ pc' = [pc EXCEPT ![r] = "failed"]
    /\ Fault
    /\ UNCHANGED <<body, plans, met>>

CreationNext ==
    \E r \in Requests :
        \/ \E b \in Body : PostPlan(r, b)
        \/ CheckOverlap(r) \/ InsertPlan(r) \/ RequestFails(r)

CreationSpec == CreationInit /\ [][CreationNext]_creationVars

-----------------------------------------------------------------------------
(* Properties. *)

(* The dates whose transactions a plan counts, both ends included.         *)
DaysOf(p) == UtcDate(body[p].starts_at)..UtcDate(body[p].ends_at)

SameSeries(p, q) == body[p].user = body[q].user /\ body[p].period = body[q].period

(* "Only one plan per PERIOD TYPE may cover any given date range", for the *)
(* dates the plans really count, but for two causes: neither check saw the *)
(* other plan (they raced), or the one that saw it was sent with a UTC     *)
(* offset.  Faults and lost replies are not among them.                    *)
OverlapHasCause ==
    \A p, q \in plans :
        p # q /\ SameSeries(p, q) /\ DaysOf(p) \cap DaysOf(q) # {} =>
            (p \in met[q] => body[q].offset # 0)

(* A refusal (409) is for a plan that is there and counts some of the same *)
(* dates, whenever the client's dates are UTC dates.                       *)
RefusedForOverlap ==
    \A r \in Requests : pc[r] = "conflict" /\ body[r].offset = 0 =>
        \E p \in plans : p # r /\ SameSeries(p, r) /\ DaysOf(p) \cap DaysOf(r) # {}
=============================================================================
