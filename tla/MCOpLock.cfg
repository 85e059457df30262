SPECIFICATION LockSpec
CONSTANTS
    Client = {c1, c2}
    Prober = {q1, q2}
    NoOne = NoOne
    MaxFaults = 2
INVARIANTS
    HolderIsNamed
    NeverHidesHolder
