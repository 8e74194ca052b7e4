CONSTANTS
    Jobs = {j1}
    Kinds = {"text"}
    NoCall = NoCall
    Paths = {p1, p2}
    MaxRounds = 2
    FanOut = 1
    MaxSocks = 1
    MaxPatches = 2

SPECIFICATION ToolSpec

PROPERTY DriftTold

CHECK_DEADLOCK FALSE
