SPECIFICATION Spec
CONSTANTS
    Threads = {h1, h2}
    Emails = {e1, e2}
    Tokens = {t1, t2, t3, t4}
    MaxEmails = 3
    Empty = Empty
    Faults = {"lost", "noreply", "crash"}
SYMMETRY Symmetry
INVARIANTS
    TypeOK
    AnsweredExist
    WholeRequest
    AllOrNothing
