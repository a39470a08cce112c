CONSTANTS
    shop = shop
    support = support
    none = none
    Workers = {1, 2}
    Agents = {shop, support}
    Scenes <- MCScenes
    Window = 2
    MaxRounds = 2
    MaxCalls = 2
    MaxMessages = 3
    MaxDemands = 1
    MaxExpiries = 1
    MaxFaults = 1
    None = none
SPECIFICATION Spec
INVARIANTS
    TypeOK MemoryIsLogTail TurnsAreWhole OrdersAreWhole OrderedOnce PromptMatchesForm
PROPERTIES
    TurnEnds
CHECK_DEADLOCK FALSE
