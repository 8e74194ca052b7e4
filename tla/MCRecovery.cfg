CONSTANTS
    n1 = n1
    n2 = n2
    Tasks = {t1}
    Keys = {k1}
    Nodes = {n1, n2}
    Steady = {n1}
    NoNode = NoNode
    NoKey = NoKey
    NoTask = NoTask
    Slots <- MCOneSlot
    Eligible <- MCAnywhere
    MaxAttempts = 2
    QueueCap = 1
    MaxLinks = 2
    MaxParked = 1
    MaxFaults = 1

SPECIFICATION MCSpec

PROPERTY EventuallySettled

CHECK_DEADLOCK FALSE
