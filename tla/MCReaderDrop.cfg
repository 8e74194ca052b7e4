CONSTANTS
    w1 = w1
    Watchers = {w1}
    Socket = w1
    Work <- MCAnswer
    MaxAttempts = 1
    QueueCap = 2
    SniffChars = 5

SPECIFICATION ReaderSpec

INVARIANT ReadsOnce

CHECK_DEADLOCK FALSE
