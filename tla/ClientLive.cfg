CONSTANTS
    Callers = {u1, u2}
    Ops = {"start", "stop", "status"}
    MaxOps = 2
    MaxConns = 2
    MaxServices = 1
    MaxCrashes = 0
    Leftovers = {TRUE, FALSE}
    TimesOut = TRUE
    PromptInTime = FALSE
    Quits = TRUE
SPECIFICATION FairSpec
INVARIANTS
    PendingInv
PROPERTIES
    ResolvedOnce
    CallsReturn
    NoServiceOutlives
CHECK_DEADLOCK FALSE
