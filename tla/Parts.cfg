SPECIFICATION PartsSpec
CHECK_DEADLOCK FALSE
CONSTANTS
    Bytes = {0, 107, 128, 255}
    MaxLength = 5
    MaxOut = 12
    Width = 16
    Signed = TRUE
    Period = 3
    Window = 1
    CounterBits = 5
    CounterModulus <- MCCounterModulus
    Truncated <- MCTruncated
    MaxClock = 24
    Keys = {k1, k2, k3}
    Names = {n1, n2, n3}
    Null = Null
    Calls = {c1, c2, c3}
INVARIANTS
    IsBase64
    UrlRoundTrip
    SecretReadBack
    PasswordAdmitted
    CodeWindow
    LookupFindsUser
    EndsClean
PROPERTIES
    Returns
    CallAnswered
    EndsUnlessStuck
