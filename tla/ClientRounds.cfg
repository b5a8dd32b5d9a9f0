SPECIFICATION ClientSpec
CONSTANTS
    s1 = s1
    s2 = s2
    r1 = r1
    a1 = a1
    a2 = a2
    small = small
    NoRequest = NoRequest
    NoAgent = NoAgent
    NoBody = NoBody
    CountMax = 2
    TranscriptMax = 2
    AggregateMax = 4
    HistoryMax = 8
    MaxRounds = 8
    Sessions <- MCSessions
    Requests <- MCRequests
    Agents <- MCAgents
    Bodies <- MCBodies
    Size <- MCSize
INVARIANTS
    AnswerIsAwaited
    HistoryHasRoom
    MeasuredAgentRuns
PROPERTIES
    RequestEnds
