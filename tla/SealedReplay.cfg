SPECIFICATION Spec
CONSTANTS
    p1 = p1
    Processes = {p1}
    Commands = {c1}
    Signed = {b1, b2, u1, u2}
    MaxFaults = 0
    b1 = b1
    b2 = b2
    u1 = u1
    u2 = u2
    c1 = c1
    c2 = c2
    Builds = {b1, b2, u1, u2}
    NoBuild = NoBuild
    NoValue = NoValue
    NoCommand = NoCommand
    AgentImage = AgentImage
    JsonCatalog = JsonCatalog
    MaxSequence = 2
    Configs <- MCInsecure
    BuildCatalog <- MCCatalog1
    BuildApps <- MCCatalog1
    OverrideCatalog = NoValue
    SealedFreshness <- MCSealed
    Updates <- MCUpdates1
INVARIANT InstallsIncrease
