SPECIFICATION PlansSpec
CONSTANTS
    Together = FALSE
    Readers = {r1, r2}
    Plans = {"april"}
    Categories = {"food", "wages"}
    Days = {1, 2}
    Lines = {"groceries", "salary", "may groceries", "loan repayment"}
    None = None
    Absent = Absent
    PlanOrder <- MCPlanOrder
    Window <- MCWindow
    Cap <- MCCap
    CategoryType <- MCCategoryType
    LineOf <- MCLineOf
    Limits = {2}
    NearThreshold = 50
    MaxUnits = 2
    MaxEdits = 2
    Requests = {q1, q2, q3}
    Users = {"ann"}
    Periods = {"weekly", "monthly"}
    NoBody = NoBody
    Offsets = {0, 1}
    PerDay = 2
    MaxInstant = 3
    MaxInFlight = 2
    MaxFaults = 1
SYMMETRY PlansSymmetry
CHECK_DEADLOCK FALSE
INVARIANTS TypeOK BudgetsWithinTotals CapCoversBudgets TotalsAreBetween OverlapHasCause RefusedForOverlap
