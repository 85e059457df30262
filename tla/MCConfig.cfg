SPECIFICATION StoreSpec
CONSTANTS
    Reader = {r1, r2}
    Writer = {reg, set, seed}
    Settings = {set}
    Seeder = {seed}
    Local = {reg, set}
    Inode = {i1, i2}
    Nothing = Nothing
    Grain = 1
    Window = 1
    MaxClock = 2
    MaxEvents = 2
    reg = reg
    set = set
    seed = seed
SYMMETRY Alike
INVARIANTS
    CacheExact
    HitsAreReal
PROPERTIES
    SavesKeepOthers
