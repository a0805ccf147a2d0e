SPECIFICATION Spec
CONSTANTS
    None = None
    NoBalance = NoBalance
    Everything = Everything
    NoCategory = NoCategory
    Transfer = Transfer
    bankAccount = bankAccount
    cash = cash
    food = food
    pay = pay
    Account = bankAccount
    Accounts = {bankAccount, cash}
    Currencies = {"KES", "USD"}
    Categories = {food, pay}
    CategoryType <- TheCategoryTypes
    Days = {1, 2}
    MaxTime = 4
    BankOpening = 5
    ManualAmount = 1
    SplitAmounts = {1, 2}
    Setups <- OverlapSetups
CHECK_DEADLOCK FALSE
INVARIANT OverlapsPostOnce
