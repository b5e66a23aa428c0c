CONSTANTS
    Budgets <- AllBudgets
    FirstSettings <- AllSettings
    RuleIds = {"r1", "r2"}
    Servers = {"p1", "p2"}
    NoteIds = {"n1", "n2"}
    NewSetups = {"game"}
    HISTORY_LIMIT = 2
    DomainOrder <- SomeDomains
    Provided <- SomeProvided
    Minted <- SomeMinted
    FirstProfiles <- SomeProfiles
    NewProfiles <- HandAdded
    Sections = {"chain", "core", "behaviour", "updates", "connection", "tls", "privacy", "subscriptions", "wifi", "sync"}
    Matching = {"core"}
    Requested = "updates"
    Cores = {"builtin", "xray", "mihomo"}
    Shortcuts = {"Ctrl+F1", ""}
    Hops = {"s1", "s2"}
    Networks = {"home"}
    Trips <- SomeTrips
    Exits = {"s1", "s2"}
    Groups = {"a.org", "b.org"}
    Hands <- SomeHands
    Names = {"a", "b"}
    Codes = {"ads"}
    Protocols = {"tls", "quic"}
    Installed = {"app", "sys"}
    System = {"sys"}
    Resolvers = {"1.1.1.1"}
    MaxConditions = 2
    Pages = {"tab", "page"}
    Passing = {"dialog"}
    Standing = {"sheet"}
    MaxTaps = 7
    Walks <- SomeWalks
    Addresses = {"l1", "l2", "l3"}
    Known = {"l3"}
    Efforts <- SomeEfforts
    Tours <- SomeTours
    GroupOf <- SomeGroups
    PingOf <- SomePings
    NameOrder <- SomeNames
    FilterAbove = 2
    Drives <- SomeDrives
    Exportable = {"one", "two"}
    Subscriptions = {"a.org", "b.org"}
    Visits <- SomeVisits
    ProgramOf <- SomePrograms
    SystemPrograms = {"svc", "dns"}
    MaxReads = 2
    Periods = {1, 7}
    Packages <- SomePackages
    Permissions = {"state", "control"}
    Plays <- SomePlays
    Touches <- SomeTouches
    Wardrobes <- SomeWardrobes
    OwnIds = {"c1", "c2"}
    PluginSets <- SomeContent
    FontFiles = {"f1", "f2"}
    Presets <- SomePresets
    Bundled <- SomeFonts
    DefaultOf <- SomeDefaults
SPECIFICATION WindowSpec
INVARIANTS
    WiresLand SetupsKeepTheirGraphs UndoReturns ShownIsStored
    SelectionExists ListIsGos PickRemembered
    ReturnsWhereLeft ChoicesStick
    ScreenHolds CardHolds BackMatches LinksHold DraftHolds PicksHold DialogsHold ActivityHolds PluginsAndLookHold
PROPERTY NothingHangs
CHECK_DEADLOCK FALSE
