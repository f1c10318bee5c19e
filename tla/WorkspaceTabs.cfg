CONSTANTS
    p1 = p1
    p2 = p2
    p3 = p3
    h1 = h1
    h2 = h2
    none = none
    Panes <- MCPanes
    Handlers <- MCHandlers
    Nothing <- none
    MaxDepth = 1
    MaxReloads = 1
SYMMETRY MCSymmetry
SPECIFICATION TabsSpec
INVARIANTS
    TabsSurviveReload
    
    LayoutOperationsAgree
CHECK_DEADLOCK FALSE
