SPECIFICATION FairSpec
CONSTANTS
    Proc = {agent}
    Agent = agent
    Unit = {klipper, watcher, display}
    Klipper = klipper
    Outages <- LongOutages
    NoOne = NoOne
    MaxFault <- AgentFaults
    watcher = watcher
    display = display
INVARIANTS
    JournalCovers
    QuietDuringWrite
PROPERTIES
    ServicesComeBack
    KeepsPromise
