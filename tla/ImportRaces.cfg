SPECIFICATION Spec
CONSTANTS
    Imports = {i1, i2}
    Workers = {w1, w2}
    Accounts = {a1}
    SubLedgers = {l1}
    Names = {"Deposit", "Shares"}
    Files = {"sacco", "march", "april"}
    Hashes = {"h1", "h2", "h3"}
    Providers <- MCProviders
    PARSERS <- MCPARSERS
    MentorSacco = "Mentor Sacco"
    ParseOutcome <- MCParseOutcome
    FlatRows <- MCFlatRows
    Headings <- MCHeadings
    SectionRows <- MCSectionRows
    None = None
    MaxFaults = 1
    MaxEdits = 1
CHECK_DEADLOCK FALSE
INVARIANTS EnqueuedIsDurable ParsedIsComplete
PROPERTY ImplementsLifecycle
