CONSTANTS
    t1 = t1
    t2 = t2
    t3 = t3
    n1 = n1
    Tasks = {t1}
    Keys = {t1}
    Nodes = {n1}
    NoNode = NoNode
    NoKey = NoKey
    Slots <- MCSlots
    Eligible <- MCAnywhere
    MaxAttempts = 2
    QueueCap = 2
    KeyOf <- MCKeyOf
    Outputs = {"p"}
    Flaw <- MCFlaw
    Keeps <- MCKeeps
    NoPatch = "none"

SPECIFICATION Spec
SYMMETRY MCSymmetry

PROPERTY NoStaleCommit
