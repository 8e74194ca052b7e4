CONSTANTS
    t1 = t1
    t2 = t2
    t3 = t3
    n1 = n1
    Tasks = {t1, t2, t3}
    Keys = {t1, t2, t3}
    Nodes = {n1}
    NoNode = NoNode
    NoKey = NoKey
    Slots <- MCSlots
    Eligible <- MCAnywhere
    MaxAttempts = 2
    QueueCap = 3
    KeyOf <- MCKeyOf
    Outputs = {"p", "q", "broken"}
    Flaw <- MCFlaw
    Keeps <- MCKeeps
    NoPatch = "none"
    s1 = s1
    j1 = j1
    j2 = j2
    j3 = j3
    j4 = j4
    h1 = h1
    Ids = {s1}
    Jobs = {j1, j2, j3, j4}
    NoJob = NoJob
    Hosts = {h1}
    NoHost = NoHost
    Sizes <- MCSizes
    Window <- MCWindow
    Reserve = 1
    MaxTurns = 6
    MaxSends = 1

SPECIFICATION ResultsSpec
SYMMETRY MCSymmetry

INVARIANT Tidy
INVARIANT AcceptedVerified
INVARIANT LedgerTruthful
PROPERTY EveryAcceptedRecorded
PROPERTY RaceClosed
INVARIANT Remembered
INVARIANT PromptFits
INVARIANT AnsweredOnce
PROPERTY CoverageGrows
