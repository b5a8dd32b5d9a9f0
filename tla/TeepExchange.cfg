SPECIFICATION Spec
CONSTANTS
    s1 = s1
    s2 = s2
    cat0 = cat0
    app0 = app0
    app1 = app1
    n1 = n1
    c1 = c1
    c2 = c2
    a1 = a1
    a2 = a2
    Catalog = cat0
    NoDigest = NoDigest
    NoPayload = NoPayload
    NoComponent = NoComponent
    MaxGeneration = 8
    MaxSequence = 2
    MaxComponents = 3
    Sessions <- MCSessions
    Apps <- MCApps
    Plain <- MCNone
    Nonces <- MCNonces
    Payloads <- MCPayloads
    Authorizes <- MCAuthorizes
    Manifests <- MCManifests
    Provisioned <- MCProvisioned
    Digests <- MCDigests
SYMMETRY MCSymmetry
INVARIANTS
    TypeOK
    InstalledAsRequested
    SuccessOnlyAfterCommit
    EvidenceChain
    ExecutedIsAuthorized
    ReplayCompletes
