SPECIFICATION Spec
CONSTANTS
    Device = {d1, d2}
    Port = {p1, p2, p3}
    Home <- HomeDef
    Named = {d1}
    Types <- TypesDef
    Target = {t1, t2}
    Commit = {0, 1, 2}
    Subtree <- SubtreeDef
    Declares <- DeclaresDef
    WithBin = {0, 1}
    Tagged = {1}
    Speaks = {0, 1}
    Args = TRUE
    Submodules = TRUE
    Listed <- ListedDef
    Helper = "klipper"
    None = None
    Happening <- AllHappening
    MaxEvents = 1
    d1 = d1
    d2 = d2
    p1 = p1
    p2 = p2
    t1 = t1
    t2 = t2
INVARIANTS
    CurrentIsBuilt
    BuildSettles
    LedgerNamesImage
    WritesWhoAnswered
CHECK_DEADLOCK FALSE
