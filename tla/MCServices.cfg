CONSTANTS
    c2 = c2
    j2 = j2
    Machines = {m1, m2}
    Clusters = {c1, c2}
    NoCluster = NoCluster
    Hints = {"h"}
    Matches <- MCMatches
    MaxWaiting = 2
    EnterDepth = 1
    Window = 1
    Cooldown = 1
    Jobs = {j1, j2}
    Kinds = {"agentic", "text", "plain"}
    NoCall = NoCall
    Paths = {p1}
    MaxRounds = 2
    FanOut = 2
    MaxSocks = 2
    MaxPatches = 1
    Commands = {a1, a2}
    MaxDropped = 1
    Callers = {x1, x2}
    Pids = {1, 2, 3}
    NoPid = NoPid

SPECIFICATION MCSpec

PROPERTY AdviceEnds
INVARIANT OwnAnswer
PROPERTY EffectsInTime
PROPERTY CutByRevoke
PROPERTY JobsEnd
INVARIANT RefusedTwice
PROPERTY AgentReturns
INVARIANT NoOrphan

CHECK_DEADLOCK FALSE
