CONSTANTS
    t1 = t1
    t2 = t2
    k1 = k1
    k2 = k2
    n1 = n1
    n2 = n2
    Tasks = {t1, t2}
    Keys = {k1, k2}
    Nodes = {n1, n2}
    NoNode = NoNode
    NoKey = NoKey
    NoTask = NoTask
    Slots <- MCOneSlot
    Eligible <- MCAnywhere
    MaxAttempts = 2
    QueueCap = 2
    MaxLinks = 2
    MaxParked = 1
    MaxFaults = 2

SPECIFICATION MCSpec
SYMMETRY MCSymmetry

INVARIANT OneHome
PROPERTY NoStranding
PROPERTY TableKept
PROPERTY LatestLink
INVARIANT OneAtATime
CONSTRAINT MCSlices
