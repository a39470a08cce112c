CONSTANTS
    shop = shop
    support = support
    none = none
    Workers = {1, 2}
    Agents = {shop, support}
    Scenes <- MCNumbers
    Window = 2
    MaxRounds = 2
    MaxCalls = 1
    MaxMessages = 3
    MaxDemands = 1
    MaxExpiries = 1
    MaxFaults = 1
    None = none
SPECIFICATION Spec
INVARIANTS
    AnsweredAsAddressed
CHECK_DEADLOCK FALSE
