CONSTANTS
    Board = {"pico", "rr"}
    Serial = {"e66", "RR-UNPROVISIONED", "RR-1"}
    Uuid = {"can1"}
    Type = {"skr", "filament"}
    Key = {"derived", "e66"}
    Handler = {"rpc1", "rpc2"}
    Cli = {"cli"}
    None = "none"
    Kconfig = {"skr"}
    Helped = {"filament"}
    Diagnostic = {"RR-UNPROVISIONED"}
    Durable = {"RR-1"}
    Factory <- MCFactory
    CandidateKeys <- MCCandidateKeys
    RomKey <- MCRomKey
    TTL = 0
    MaxNow = 1
    MaxAsks = 2
    MaxEvents = 1
SPECIFICATION FairSpec
INVARIANTS NameIsKnown
PROPERTIES AutoProvisions NeverRetiresTracked OneOwner AdoptsWhatIsOwed
CHECK_DEADLOCK FALSE
