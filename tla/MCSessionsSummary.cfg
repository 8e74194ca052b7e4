CONSTANTS
    s1 = s1
    j1 = j1
    j2 = j2
    j3 = j3
    j4 = j4
    h1 = h1
    Ids = {s1}
    Jobs = {j1, j2, j3, j4}
    NoJob = NoJob
    Hosts = {h1}
    NoHost = NoHost
    Sizes <- MCSizes
    Window <- MCRoomier
    Reserve = 1
    MaxTurns = 6
    MaxSends = 1

SPECIFICATION SessionSpec
SYMMETRY MCSymmetry

INVARIANT SummaryCovers
