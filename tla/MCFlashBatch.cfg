SPECIFICATION FairSpec
CONSTANTS
    Board = {dfu, usb, can, bridge}
    Refused = {dev4}
    Flasher = {flashtool, dfuutil}
    Place <- MCPlace
    FlasherOf <- MCFlasherOf
    Kind <- MCKind
    Known <- AllKnown
    Linked = TRUE
    Nobody = Nobody
    MaxEvents = 1
    dfu = dfu
    usb = usb
    can = can
    bridge = bridge
    flashtool = flashtool
    dfuutil = dfuutil
CHECK_DEADLOCK FALSE
INVARIANTS
    OffsetGuarded
    AccountExact
PROPERTIES
    BatchEnds
