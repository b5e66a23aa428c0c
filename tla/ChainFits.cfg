CONSTANTS
    Budgets <- OnePick
    FirstSettings <- HopChosen
    DomainOrder <- OneDomain
    Provided <- SameServers
    Minted <- SomeMinted
    FirstProfiles <- TwoServers
    NewProfiles = {}
SPECIFICATION ServerSpec
INVARIANT ChainFits
CHECK_DEADLOCK FALSE
