SPECIFICATION ProvidersSpec
CONSTANTS
    Urls = {u1, u2}
    Models = {m1}
    Keys = {k1, k2}
    Tests = {c1, c2}
    Turns = {t1, t2}
    Conversations = {v1}
    Undefined = Undefined
    SessionOnly = FALSE
    MaxRestarts = 1
SYMMETRY Symmetry
INVARIANTS
    VerifiedWasAccepted
    TurnsCanBeStopped
