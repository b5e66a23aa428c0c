CONSTANTS
    Callers = {u1}
    Ops = {"start", "stop"}
    MaxOps = 2
    MaxConns = 2
    MaxServices = 1
    MaxCrashes = 1
    Leftovers = {FALSE}
    TimesOut = FALSE
    PromptInTime = FALSE
    Quits = FALSE
SPECIFICATION Spec
INVARIANTS
    StopStops
CHECK_DEADLOCK FALSE
