SPECIFICATION Spec
CONSTANTS
    s1 = s1
    s2 = s2
    s3 = s3
    r1 = r1
    r2 = r2
    a1 = a1
    a2 = a2
    small = small
    full = full
    over = over
    NoRequest = NoRequest
    NoAgent = NoAgent
    NoBody = NoBody
    CountMax = 2
    TranscriptMax = 2
    AggregateMax = 4
    HistoryMax = 1
    Sessions <- MCTwoSessions
    Requests <- MCOneRequest
    Agents <- MCAgents
    Bodies <- MCBodies
    Size <- MCSize
INVARIANTS
    MeasuredAgentRuns
