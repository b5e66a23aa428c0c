CONSTANTS
    Callers = {u1}
    Ops = {"start", "stop"}
    MaxOps = 3
    MaxConns = 3
    MaxServices = 2
    MaxCrashes = 1
    Leftovers = {FALSE}
    TimesOut = FALSE
    PromptInTime = TRUE
    Quits = FALSE
SPECIFICATION Spec
INVARIANTS
    DropIsTold
    TunnelInReach
CHECK_DEADLOCK FALSE
