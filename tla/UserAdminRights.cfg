SPECIFICATION Spec
CONSTANTS
    Users = {u1, u2}
    Threads = {h1, h2}
    Lifetime = 2
    MaxDelay = 1
    Null = Null
    Faults = {"lost", "noreply", "error"}
SYMMETRY Symmetry
INVARIANTS
    RightsExpire
    DisabledHidden
