SPECIFICATION Spec
CONSTANTS
    Requests = {r1, r2}
    Txns = {"shop", "rent", "salary"}
    Categories = {"food"}
    Budgets = {"month plan"}
    Days = {1, 2}
    None = None
    Absent = Absent
    Amount <- MCAmount
    Direction <- MCDirection
    Day <- MCDay
    CategoryType <- MCCategoryType
    CategoryOf <- MCCategoryOf
    Window <- MCWindow
    Limits = {0, 1, 4}
    NearThreshold = 50
    Splits <- MCSplitsWithin
    MaxInFlight = 2
    MaxBatch = 2
    MaxFaults = 1
    MaxEdits = 1
SYMMETRY Symmetry
CHECK_DEADLOCK FALSE
INVARIANTS BulkReconciles AlertsAreTrue OneAlertUndisturbed
PROPERTY OnlyRacesOverAllocate
