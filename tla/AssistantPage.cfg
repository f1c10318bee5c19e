CONSTANTS
    s1 = s1
    s2 = s2
    r1 = r1
    w1 = w1
    w2 = w2
    t1 = t1
    t2 = t2
    none = none
    Calls <- MCCalls
    Pages <- MCPages
    Terminals <- MCTerminals
    Repeats <- MCRepeats
    None <- none
    MaxPreviews = 2
    MaxRecords = 2
    MaxOutput = 2
    MaxEvents = 1
SPECIFICATION Spec
SYMMETRY MCSymmetry
INVARIANTS
    PreparedUsedOnce
    AnswersFollowQuestions
    
    WaitsForItsCall
CHECK_DEADLOCK FALSE
