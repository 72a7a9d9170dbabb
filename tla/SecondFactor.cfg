SPECIFICATION Spec
CHECK_DEADLOCK FALSE
CONSTANTS
    Threads = {h1, h2}
    Secrets = {x1, x2}
    Codes = {c1, c2, c3, c4}
    BatchSize = 2
    Null = Null
    Faults = {"lost", "noreply", "crash"}
SYMMETRY Symmetry
INVARIANTS
    BackupCodeOnce
    EnabledIsProven
    RetiredCodesDead
