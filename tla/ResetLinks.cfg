SPECIFICATION FairSpec
CONSTANTS
    Resets = {r1, r2}
    Confirms = {c1, c2}
    Changes = {h1}
    Passwords = {"old", "new"}
    None = None
    MaxFaults = 1
CHECK_DEADLOCK FALSE
INVARIANTS ConsumedOnce UsedIsEffective TwoLinksNeedRace
PROPERTIES LinkLifeCycle RequestsEnd
