SPECIFICATION FairSpec
CONSTANTS
    o1 = o1
    o2 = o2
    u1 = u1
    h1 = h1
    h2 = h2
    h3 = h3
    i1 = i1
    i2 = i2
    Orders = {o1}
    Units = {u1}
    Handlers = {h1, h2, h3}
    Intents = {i1, i2}
    Accepts <- MCRetries
    Lines <- MCLines
    Groups <- MCServiceOnly
    InitialGateway <- MCInitialGateway
    InitialLinks <- MCNoLinks
    InitialStock <- MCInitialStock
    DefaultGateway = "paystack"
    RelinkGateways = {"none", "stripe"}
    Checked = {"paystack", "flutterwave", "stripe"}
    MaxFaults = 1
PROPERTIES
    ChargeIsHonoured
    ConfirmedIsHandled
CHECK_DEADLOCK FALSE
