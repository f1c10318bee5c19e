CONSTANTS
    page1 = page1
    page2 = page2
    none = none
    Pages <- MCPages
    None <- none
    MaxBuffered = 1
    MaxReplay = 1
    MaxOutput = 1
    MaxRequests = 1
    MayEnd = TRUE
SPECIFICATION FairSpec
INVARIANTS
    LeaseIsHeld
    OutputHasNoGap
    PagesKnowTheLease
PROPERTIES
    OpenSocketGetsLease
CHECK_DEADLOCK FALSE
