CONSTANTS
    ls = ls
    spaces = spaces
    op1 = op1
    op2 = op2
    home = home
    bash = bash
    none = none
    Commands <- MCCommands
    Blank <- MCBlank
    OpIds <- MCOpIds
    Cwds <- MCCwds
    Logins <- MCLogins
    None <- none
    RootDepth = 2
    MaxBlocks = 1
    MaxEvents = 4
    MaxInputs = 1
SPECIFICATION Spec
SYMMETRY OperationSymmetry
INVARIANTS
    OneSubmissionPerScope
    TrackedOperations
    NoAuthorityFromOutput
PROPERTIES
    OutcomesAreFinal
    ImplementsContract
CHECK_DEADLOCK FALSE
