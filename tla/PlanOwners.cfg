SPECIFICATION Spec
CONSTANTS
    Readers = {r1}
    Plans = {"april", "may"}
    Categories = {"food", "wages"}
    Days = {1, 2}
    Lines = {"groceries", "salary", "no category", "loan repayment", "someone else's"}
    None = None
    Absent = Absent
    PlanOrder <- MCPlanOrder
    Window <- MCWindow
    Cap <- MCCap
    CategoryType <- MCCategoryType
    LineOf <- MCLineOf
    Limits = {2}
    NearThreshold = 50
    MaxUnits = 2
    MaxEdits = 1
SYMMETRY Symmetry
CHECK_DEADLOCK FALSE
INVARIANT TotalsAreOwn
