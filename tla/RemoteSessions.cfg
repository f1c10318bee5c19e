CONSTANTS
    ssh1 = ssh1
    ssh2 = ssh2
    docker1 = docker1
    local1 = local1
    direct1 = direct1
    home = home
    none = none
    Calls <- MCCalls
    KindOf <- MCKindOf
    TargetOf <- MCTargetOf
    None <- none
    MaxTerminals = 2
    MaxRemotes = 2
    MaxPending = 2
SPECIFICATION Spec
INVARIANTS
    ConnectionsAreOwned
    SessionsFollowTerminals
    ApprovalServesOnce
CHECK_DEADLOCK FALSE
