SPECIFICATION Spec
CONSTANTS
    Proc = {agent, cli}
    Agent = agent
    Unit = {klipper, watcher}
    Klipper = klipper
    Outages <- PairOutages
    NoOne = NoOne
    MaxFault <- PairFaults
    watcher = watcher
    display = display
INVARIANTS
    RestoredWhenIdle
PROPERTIES
    LeavesStoppedAlone
