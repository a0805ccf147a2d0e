SPECIFICATION FairSpec
CONSTANTS
    Imports = {i1}
    Workers = {w1}
    Accounts = {a1}
    SubLedgers = {l1, l2}
    Names = {"Deposit", "Shares"}
    Files = {"sacco", "deposit", "scan", "march"}
    Hashes = {"h1", "h2", "h3"}
    Providers <- MCProviders
    PARSERS <- MCPARSERS
    MentorSacco = "Mentor Sacco"
    ParseOutcome <- MCParseOutcome
    FlatRows <- MCFlatRows
    Headings <- MCHeadings
    SectionRows <- MCSectionRows
    None = None
    MaxFaults = 2
    MaxEdits = 2
CHECK_DEADLOCK FALSE
INVARIANTS RejectedWroteNothing RowsFiledAsSelected
PROPERTIES AcceptedSettles QueueDrains
