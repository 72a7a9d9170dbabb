SPECIFICATION Spec
CHECK_DEADLOCK FALSE
CONSTANTS
    Threads = {h1, h2}
    Passwords = {p1, p2, p3, p4}
    Tokens = {t1, t2}
    Resets = {r1, r2}
    Null = Null
    Faults = {"lost", "noreply", "crash"}
SYMMETRY Symmetry
INVARIANTS
    OneUsePerThread
    ResetLeavesOnlyLate
    OneResetPerThread
