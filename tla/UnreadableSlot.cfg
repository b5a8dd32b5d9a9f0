SPECIFICATION Spec
CONSTANTS
    cat0 = cat0
    appA = appA
    appB = appB
    plain0 = plain0
    d1 = d1
    d2 = d2
    p1 = p1
    p2 = p2
    Catalog = cat0
    Apps <- MCNone
    Plain <- MCPlain
    Digests <- MCDigests
    NoDigest = NoDigest
    Payloads <- MCOnePayload
    NoPayload = NoPayload
    NoComponent = NoComponent
    MaxGeneration = 3
    MaxSequence = 3
    MaxComponents = 2
    LegacyMaps <- MCNoLegacy
    UnreadableSets <- MCUnreadable
SYMMETRY MCDigestSymmetry
PROPERTIES
    GenerationNeverDecreases
