SPECIFICATION FairSpec
CONSTANTS
    Readers = {r1, r2}
    MaxVersion = 3
    MaxDels = 2
    MaxDelay = 2
    TTL = 3
    RedisFails = TRUE
    Faults = {"lost", "noreply", "error", "crash"}
    Null = Null
INVARIANTS
    StaleOnlyByEscape
    AnswersRecent
PROPERTIES
    EveryMeAnswered
    EventuallyFresh
