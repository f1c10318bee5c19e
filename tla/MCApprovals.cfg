CONSTANTS
    prop1 = prop1
    prop2 = prop2
    op1 = op1
    op2 = op2
    here = here
    there = there
    none = none
    Proposals <- MCProposals
    OpIds <- MCOpIds
    Targets <- MCTargets
    None <- none
    MaxVersion = 2
    MaxFailures = 1
    MaxRestarts = 1
SPECIFICATION ServiceSpec
SYMMETRY ApprovalSymmetry
INVARIANTS
    SubmittedIsReserved
    SubmittedOnce
    OneOpenProposal
    RecordedOutcomeIsTrue
    SubmittedAsFrozen
CHECK_DEADLOCK FALSE
