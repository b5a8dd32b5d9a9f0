SPECIFICATION Spec
CONSTANTS
    s1 = s1
    s2 = s2
    s3 = s3
    r1 = r1
    r2 = r2
    a1 = a1
    a2 = a2
    small = small
    full = full
    over = over
    NoRequest = NoRequest
    NoAgent = NoAgent
    NoBody = NoBody
    CountMax = 2
    TranscriptMax = 2
    AggregateMax = 4
    HistoryMax = 2
    Sessions <- MCThreeSessions
    Requests <- MCRequests
    Agents <- MCOneAgent
    Bodies <- MCBodies
    Size <- MCSize
SYMMETRY MCSymmetry
INVARIANTS
    TranscriptsCounted
    BytesCounted
    ModulesAlive
