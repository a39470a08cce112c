CONSTANTS
    mug = mug
    print = print
    local = local
    none = none
    Handlers = {1, 2, 3}
    Loads <- MCLoads
    Externals <- MCExternals
    AlwaysListed <- MCAlwaysListed
    Versions = {"1.1"}
    Setups <- MCSetups
    Limit = 2
    MaxStock = 1
    InitialRows <- MCInitialRows
    InitialOwners <- MCInitialOwners
    InitialSources <- MCInitialSources
    MaxRows = 5
    MaxVariants = 4
    MaxBatch = 1
    MaxChanges = 1
    MaxFaults = 1
    Local = local
    None = none
SPECIFICATION Spec
INVARIANTS
    TypeOK FlagAgrees OneRowPerExternalId PlanLimitHolds
PROPERTIES
    SyncMirrors CatalogConverges
CHECK_DEADLOCK FALSE
