------------------------------ MODULE MoneyPlans ------------------------------
(***************************************************************************)
(* Money plans (api/money_plans.py, repositories/money_plans.py): drafts   *)
(* are created and deleted here.  Converting a draft into a budget plan    *)
(* and archiving it happen outside this code, in another tab, at any time. *)
(* A plan's lines and their summary are left out.                          *)
(***************************************************************************)
EXTENDS AuthGate

CONSTANT PlanIds

VARIABLES
    plan,      \* money_plans: owner and status
    made,      \* history: the ids given out, never used again
    kept,      \* history: the plans that were converted or archived
    deletion   \* the DELETE requests

moneyPlansVars == <<plan, made, kept, deletion>>

MoneyPlan == [owner : Users, status : {"draft", "converted", "archived"}]
Deletion  == [user : Users, id : PlanIds,
              step : {"delete", "exists", "deleted", "not_found", "not_draft"}]

ASSUME MoneyPlansAssumption == None \notin MoneyPlan

MoneyPlansTypeOK ==
    /\ plan \in [PlanIds -> MoneyPlan \cup {None}]
    /\ made \subseteq PlanIds /\ kept \subseteq made
    /\ deletion \in [Calls -> Deletion \cup {None}]

MoneyPlansInit ==
    /\ plan = [p \in PlanIds |-> None]
    /\ made = {} /\ kept = {}
    /\ deletion = [c \in Calls |-> None]

-----------------------------------------------------------------------------
(* create_money_plan: one INSERT, status by the column's default.          *)
CreatePlan(u, p) ==
    /\ p \notin made
    /\ plan' = [plan EXCEPT ![p] = [owner |-> u, status |-> "draft"]]
    /\ made' = made \cup {p}
    /\ UNCHANGED <<kept, deletion>>

(* Another tab. *)
Settle(p, status) ==
    /\ plan[p] # None /\ plan[p].status = "draft"
    /\ plan' = [plan EXCEPT ![p].status = status]
    /\ kept' = kept \cup {p}
    /\ UNCHANGED <<made, deletion>>

AskDelete(c, u, p) ==
    /\ deletion[c] = None /\ p \in made
    /\ deletion' = [deletion EXCEPT ![c] = [user |-> u, id |-> p, step |-> "delete"]]
    /\ UNCHANGED <<plan, made, kept>>

InStep(c, step) == deletion[c] # None /\ deletion[c].step = step

Own(c) ==
    LET d == deletion[c] IN plan[d.id] # None /\ plan[d.id].owner = d.user

(* A bug: the status was looked at before, and the DELETE does not repeat it. *)
Wrong_StatusReadEarlier(c) == Own(c)

(* WHERE id = ... AND user_id = ... AND status = 'draft' *)
Deletable(c) == Own(c) /\ plan[deletion[c].id].status = "draft"

DeleteDraft(c) ==
    /\ InStep(c, "delete")
    /\ IF Deletable(c)
         THEN /\ plan' = [plan EXCEPT ![deletion[c].id] = None]
              /\ deletion' = [deletion EXCEPT ![c].step = "deleted"]
         ELSE /\ deletion' = [deletion EXCEPT ![c].step = "exists"]
              /\ plan' = plan
    /\ UNCHANGED <<made, kept>>

(* SELECT EXISTS tells the two refusals apart. *)
TellWhy(c) ==
    /\ InStep(c, "exists")
    /\ deletion' = [deletion EXCEPT ![c].step = IF Own(c) THEN "not_draft" ELSE "not_found"]
    /\ UNCHANGED <<plan, made, kept>>

-----------------------------------------------------------------------------
MoneyPlansSteps ==
    \/ \E c \in Calls : DeleteDraft(c) \/ TellWhy(c)
    \/ \E p \in PlanIds, s \in {"converted", "archived"} : Settle(p, s)

MoneyPlansCalls ==
    \E u \in Users, p \in PlanIds :
        CreatePlan(u, p) \/ \E c \in Calls : AskDelete(c, u, p)

MoneyPlansNext == MoneyPlansSteps \/ MoneyPlansCalls

MoneyPlansSpec == MoneyPlansInit /\ [][MoneyPlansNext]_moneyPlansVars

-----------------------------------------------------------------------------
(* A plan converted or archived in another tab, even between the two       *)
(* queries of a deletion, is never removed (money_plans.py:84-86), and the *)
(* answer is true when it is given and stays true: what is answered        *)
(* not_draft is there for good, what is answered deleted was removed by    *)
(* this request alone, what is answered not_found is not the caller's.     *)
DeletionsAreTrue ==
    /\ \A p \in kept : plan[p] # None /\ plan[p].status # "draft"
    /\ \A c \in Calls : deletion[c] # None =>
          LET d == deletion[c]
          IN  /\ d.step = "not_draft" => d.id \in kept /\ plan[d.id].owner = d.user
              /\ d.step = "not_found" => ~Own(c)
              /\ d.step = "deleted" =>
                    /\ plan[d.id] = None
                    /\ \A e \in Calls \ {c} :
                          deletion[e] # None /\ deletion[e].id = d.id
                              => deletion[e].step # "deleted"
=============================================================================
