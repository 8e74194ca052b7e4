CONSTANTS
    w1 = w1
    p1 = p1
    p2 = p2
    Watchers = {w1}
    Socket = w1
    Work <- MCWork
    MaxAttempts = 2
    QueueCap = 2
    SniffChars = 5
    Paths = {p1, p2}
    Under <- MCUnder
    Starts <- MCStarts
    Inserts = {0, 2}
    Deletes = {1, 2}
    FlushMaxOps = 2
    HistoryCap = 2
    MaxPatches = 3
    MaxLives = 2
    Room = 2
    Buffered = 2
    MaxSeq = 6
    MaxReplaced = 1
    Files = {"sessions", "nodes", "ledger"}
    Ledger = "ledger"
    Roster = "nodes"
    Contents = {"a", "b"}
    Empty = "a"
    Absent = "absent"
    Torn = "torn"
    MaxFailing = 1
    MaxCommits = 3
    MaxDeaths = 1

SPECIFICATION MCSpec

INVARIANT StreamTrue
INVARIANT EndNotDropped
INVARIANT ReaderTrue
PROPERTY ReaderTold
INVARIANT Recoverable
INVARIANT RebasedInPlace
PROPERTY EventuallySaved
INVARIANT Converged
INVARIANT Audited
