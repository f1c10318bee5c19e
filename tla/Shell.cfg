CONSTANTS
    ls = ls
    rm = rm
    mixed = mixed
    op1 = op1
    op2 = op2
    home = home
    bash = bash
    none = none
    Commands <- MCCommands
    Blank = {}
    OpIds <- MCOneOp
    Cwds <- MCCwds
    Logins <- MCLogins
    None <- none
    RootDepth = 1
    MaxBlocks = 1
    MaxEvents = 22
    MaxInputs = 2
    Mixed <- mixed
    CommandOf <- MCCommandOfOne
    UserInputs <- AllInputs
    MaxNested = 2
    MaxTyped = 2
    MaxMarkers = 6
    ShellMayDie = TRUE
    DebugTrap = TRUE
SPECIFICATION FairSystemSpec
INVARIANTS
    DepthNeverUnderCounted
    IdleShellIsAtPrompt
PROPERTIES
    ApprovedIsSettled
CHECK_DEADLOCK FALSE
