\* Pushes that are given up and served all the same, a bucket smaller than the
\* backlog, readings whose stamps collide, and a server that restarts.
CONSTANTS
    t1 = t1  t2 = t2
    s1 = s1  s2 = s2  s3 = s3
    Threads = {t1, t2}
    NoThread = NoThread
    MaxSize = 1
    Capacity = 1
    Refill = 1
    Horizon = 3
    Chunk = 1
    Servers = {s1, s2, s3}
    Drift = 0
    Paths <- MCPaths
    Wrong <- MCWrong
    MaxDelay = 8
    MaxPlausible = 17
    TickLength = 4
    None = None
    MaxCaptured = 2
    MaxClock = 1
    MaxWait = 1
    MaxFaults = 1
    MaxSyncs = 1
SPECIFICATION FairSpec
INVARIANTS ReadingsAreStaged RateIsBounded ClockIsTrue
PROPERTIES InOrder EveryReadingArrives
