----------------------------- MODULE PlanRequests -----------------------------
(***************************************************************************)
(* Budget plans: creating them beside listing and exporting them.  They    *)
(* meet in the table budget_plans only, which a listing reads once, when   *)
(* it begins: a plan created later is not in its answer, so that the plans *)
(* of PlanListing are those of its moment, and no step of one is in the    *)
(* way of the other.                                                       *)
(***************************************************************************)
EXTENDS PlanListing, BudgetPlans

CONSTANT Together  \* bound: whether plans are created in the runs that list them

ASSUME TogetherAssumption == Together \in BOOLEAN

PlansInit == Init /\ CreationInit

PlansNext ==
    \/ (Together \/ CreationInit) /\ Next /\ UNCHANGED creationVars
    \/ (Together \/ Init) /\ CreationNext /\ UNCHANGED vars

PlansSpec == PlansInit /\ [][PlansNext]_<<vars, creationVars>>
=============================================================================
