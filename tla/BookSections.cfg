SPECIFICATION Spec
CONSTANTS
    Imports = {i1, i2}
    Entries = {}
    l1 = l1
    l2 = l2
    SubLedgers = {l1, l2}
    None = None
    Providers <- MCProviders
    MentorSacco = "Mentor Sacco"
    LastDay = 2
    Ledger <- MCTwoLoans
    Sections <- MCTwoLoanSections
    Start <- MCStart
    BookOf <- MCBookOf
    AtFirst <- MCAtFirst
    Amounts = {32}
    MaxEdits = 1
CHECK_DEADLOCK FALSE
INVARIANT EveryBookIsExact
SYMMETRY ImportSymmetry
