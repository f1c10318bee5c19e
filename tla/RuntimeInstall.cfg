CONSTANTS
    v1 = v1
    v2 = v2
    a1 = a1
    a2 = a2
    a3 = a3
    none = none
    Versions <- MCVersions
    Attempts <- MCAttempts
    ArtifactOf <- MCArtifactOf
    None <- none
    MaxDeaths = 1
SPECIFICATION Spec
INVARIANTS
    LinkedRuntimesAreWhole
PROPERTIES
    
    ImplementsLinks
CHECK_DEADLOCK FALSE
