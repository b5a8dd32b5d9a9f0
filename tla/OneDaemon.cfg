SPECIFICATION FairSpec
CONSTANTS
    p1 = p1
    Processes = {p1}
    Commands = {c1, c2}
    Signed = {b1, b2, u1, u2}
    MaxFaults = 2
    b1 = b1
    b2 = b2
    u1 = u1
    u2 = u2
    c1 = c1
    c2 = c2
    Builds = {b1, b2, u1, u2}
    NoBuild = NoBuild
    NoValue = NoValue
    NoCommand = NoCommand
    AgentImage = AgentImage
    JsonCatalog = JsonCatalog
    MaxSequence = 2
    Configs <- MCConfigs
    BuildCatalog <- MCCatalog
    BuildApps <- MCApps
    OverrideCatalog = NoValue
    SealedFreshness = NoValue
    Updates <- MCUpdates
INVARIANTS
    InstallsIncrease
    NoFalseAlarm
    RecordedIsInstalled
PROPERTIES
    RequestEnds
