SPECIFICATION FairSpec
CHECK_DEADLOCK FALSE
CONSTANTS
    Requests = {r1, r2}
    Jtis = {j1}
    MaxTime = 3
    RedisFails = TRUE
    Faults = {"lost", "noreply", "error"}
    Null = Null
INVARIANTS
    BlacklistOutlivesToken
    LoggedOutRefused
PROPERTIES
    EveryRequestAnswered
