CONSTANTS
    Together <- MCTogether
    Users = {admin, user}
    Admin = admin
    Reader = user
    FirstRoles <- MCFirstRoles
    Calls = {c1, c2, c3}
    SessionIds = {s1}
    None = None
    MaxRoleChanges = 1
    AccountIds = {a1, a2}
    Types <- MCTypes
    MobileMoney = "mobile_money"
    Providers = {"Equity Bank", "M-Pesa"}
    ProvidersByType <- MCProvidersByType
    Numbers = {"short", "long", "letters"}
    Digits <- MCDigits
    Changes <- MCChanges
    Openings <- MCOpenings
    PlanIds = {p1}
    MaxNotices = 2
    PageSize = 1
    LastPage = 2
SPECIFICATION Spec
INVARIANTS MisfitNeedsRace DeletionsAreTrue SkipNeedsReading ChainNeedsPromotion
PROPERTIES ReadOnlyChangesNothing EndsOnce
SYMMETRY Symmetric
CHECK_DEADLOCK FALSE
