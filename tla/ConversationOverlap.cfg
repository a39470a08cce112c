CONSTANTS
    mug = mug
    ebook = ebook
    none = none
    Products <- MCProducts
    Delivered <- MCDelivered
    BumpaGoods <- MCBumpaGoods
    FieldOrder <- MCFieldOrder
    Filled <- MCFilled
    NoProduct = none
    Workers = {1, 2}
    Channels = {"telegram"}
    Scripts <- MCInterrupted
    MaxQty = 2
    MaxOrders = 2
    MaxFaults = 0
SPECIFICATION Spec
PROPERTY
    CartSurvivesForms
CHECK_DEADLOCK FALSE
