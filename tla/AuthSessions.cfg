SPECIFICATION Spec
CONSTANTS
    Threads = {h1, h2}
    Users = {u1}
    Sessions = {s1}
    Tokens = {t1, t2, t3}
    Resets = {r1}
    Null = Null
    Faults = {"lost", "noreply", "crash"}
SYMMETRY Symmetry
INVARIANTS
    OnlyLiveCredentials
    OneChildPerThread
    OneLateTokenPerThread
    LogoutCompleteIfErrorsThrow
    ResetComplete
PROPERTIES
    ImplementsRotatingTokens
