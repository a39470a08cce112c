CONSTANTS
    mug = mug
    ebook = ebook
    none = none
    Products <- MCProducts
    Delivered <- MCDelivered
    BumpaGoods <- MCBumpaGoods
    FieldOrder <- MCFieldOrder
    Filled <- MCFilled
    NoProduct = none
    Workers = {1, 2}
    Channels = {"telegram", "whatsapp", "widget"}
    Scripts <- MCScripts
    MaxQty = 2
    MaxOrders = 2
    MaxFaults = 1
SPECIFICATION Spec
INVARIANTS
    TypeOK OrdersHaveContact OrdersHaveAddress FormFitsDraft SavedAddressIsWhole
    CheckoutCoversCart PendingIsPayable
PROPERTIES
    NothingIsLost
CHECK_DEADLOCK FALSE
