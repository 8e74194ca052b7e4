CONSTANTS
    t1 = t1
    t2 = t2
    t3 = t3
    k1 = k1
    k2 = k2
    k3 = k3
    n1 = n1
    n2 = n2
    Tasks = {t1, t2, t3}
    Keys = {k1, k2, k3}
    Nodes = {n1, n2}
    NoNode = NoNode
    NoKey = NoKey
    Slots <- MCSlots
    Eligible <- MCEligible
    MaxAttempts = 2
    QueueCap = 2

SPECIFICATION Spec
SYMMETRY MCSymmetry

INVARIANT TypeOK
INVARIANT Ownership
INVARIANT BudgetKept
INVARIANT SlotsKept
INVARIANT QueueBounded
INVARIANT Provenance
PROPERTY NoOvertaking
PROPERTY KeepsPromise
