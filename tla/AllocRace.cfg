SPECIFICATION Spec
CONSTANTS
    Requests = {r1, r2}
    Txns = {"shop"}
    Categories = {"food"}
    Budgets = {"month plan"}
    Days = {1, 2}
    None = None
    Absent = Absent
    Amount <- MCAmount
    Direction <- MCDirection
    Day <- MCDay
    CategoryType <- MCCategoryType
    CategoryOf <- MCCategoryOf
    Window <- MCWindow
    Limits = {2}
    NearThreshold = 50
    Splits <- MCSplitsWithin
    MaxInFlight = 2
    MaxBatch = 1
    MaxFaults = 0
    MaxEdits = 0
CHECK_DEADLOCK FALSE
INVARIANT NeverOverAllocated
