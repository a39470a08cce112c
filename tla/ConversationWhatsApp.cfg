CONSTANTS
    mug = mug
    ebook = ebook
    none = none
    Products <- MCProducts
    Delivered <- MCDelivered
    BumpaGoods <- MCBumpaGoods
    FieldOrder <- MCFieldOrder
    Filled <- MCFilled
    NoProduct = none
    Workers = {1, 2}
    Channels = {"whatsapp"}
    Scripts <- MCEditing
    MaxQty = 2
    MaxOrders = 2
    MaxFaults = 0
SPECIFICATION Spec
PROPERTY
    TapIsObeyed
CHECK_DEADLOCK FALSE
