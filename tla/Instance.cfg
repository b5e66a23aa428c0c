CONSTANTS
    Procs = {p1, p2}
    NoProc = NoProc
    Available = {"builtin", "xray", "sing-box", "mihomo"}
SPECIFICATION Spec
INVARIANTS IInv OneTunnel EngineUnderBox NothingLeaks FailureLeavesNothing
PROPERTIES OperationsEnd ImplementsCoreSlot
CHECK_DEADLOCK TRUE
