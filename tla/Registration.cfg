SPECIFICATION Spec
CHECK_DEADLOCK FALSE
CONSTANTS
    Threads = {h1, h2}
    Emails = {e1, e2, e3}
    Users = {u1, u2, u3}
    Codes = {c1, c2, c3}
    Null = Null
    GroupsCount = TRUE
    Faults = {"lost", "noreply", "crash"}
SYMMETRY Symmetry
INVARIANTS
    OneUserPerEmail
    OneAdminPerThread
    VerifiedByOwnCode
    OnlyTimeLocksOut
