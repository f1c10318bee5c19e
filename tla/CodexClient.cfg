CONSTANTS
    s1 = s1
    s2 = s2
    s3 = s3
    home = home
    other = other
    none = none
    Calls <- MCCalls
    ThreadOf <- MCThreadOf
    None <- none
    MaxChildren = 2
SPECIFICATION FairSpec
INVARIANTS
    WaitersAreServed
    AnswersAreOwn
PROPERTIES
    CallsEnd
CHECK_DEADLOCK FALSE
