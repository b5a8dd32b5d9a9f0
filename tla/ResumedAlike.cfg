SPECIFICATION Spec
CONSTANTS
    Requests = {"Execute"}
    Apps <- MCLong
    IdLen = 36
    ReeOutputMax = 16777216
    ReeResponseMax = 16777216
    TaOutputMax = 16384
    ResponseCap = 65536
    ResumeCap = 4096
    SpikeMax = 128
    Budget = 2
INVARIANTS
    ResumedAlike
