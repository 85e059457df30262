SPECIFICATION Spec
CONSTANTS
    Board = {b1}
    Answer = {a1, a2}
    Commit = {c1, c2}
    Line = {l1}
    None = None
    Event = {"edit", "pull", "bump", "repatch", "handbuild", "handflash", "unplug", "crash"}
    Op = {"build", "flash", "update"}
    MaxEvents = 2
SYMMETRY Alike
INVARIANTS
    CurrentMatches
    LedgerTruthful
    VerdictExact
