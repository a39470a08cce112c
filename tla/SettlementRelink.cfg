SPECIFICATION Spec
CONSTANTS
    o1 = o1
    o2 = o2
    u1 = u1
    h1 = h1
    h2 = h2
    h3 = h3
    i1 = i1
    i2 = i2
    Orders = {o1, o2}
    Units = {u1}
    Handlers = {h1, h2}
    Intents = {i1, i2}
    Accepts <- MCWithRelink
    Lines <- MCLines
    Groups <- MCGroups
    InitialGateway <- MCInitialGateway
    InitialLinks <- MCInitialLinks
    InitialStock <- MCInitialStock
    DefaultGateway = "paystack"
    RelinkGateways = {"none", "stripe"}
    Checked = {"paystack", "flutterwave", "stripe"}
    MaxFaults = 0
INVARIANTS
    EveryChargeIsPaid
CHECK_DEADLOCK FALSE
