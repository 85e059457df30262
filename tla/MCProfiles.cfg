CONSTANTS
    None = None
    Vendor = {"usb", "can"}
    Answer = {"pins", "far", "bfar", "quiet"}
    Off = {"quiet"}
    BootAnswer = {"pins", "bfar"}
    Far = "far"
    BootFar = "bfar"
    Chipset = {"pins"}
    Trees <- MCTrees
    MaxSessions = 2
    MaxOps = 4
SPECIFICATION Spec
INVARIANTS CleanMeansCurrent CleanPairBoots KeepsMine BaseIsParents
CHECK_DEADLOCK FALSE
