\* Two threads staging overlapping batches; a window too small for the keys,
\* failing writes and restarts.
CONSTANTS
    n1 = n1  n2 = n2  a1 = a1  a2 = a2  freq = freq  power = power
    p1 = p1  p2 = p2  r1 = r1  g1 = g1  g2 = g2  i1 = i1  i2 = i2  t1 = t1  t2 = t2
    Nodes = {n1}
    Accounts = {a1, a2}
    Channels = {freq, power}
    Postcodes = {p1, p2}
    Regions = {r1}
    Areas = {g1, g2}
    AreaOf <- mcAreaOf
    None = None
    Threads = {t1, t2}
    NoThread = NoThread
    MaxSize = 2
    Instants = {i1, i2}
    Requests <- StagingRequests
    MaxFaults = 1

SPECIFICATION FairSpec
INVARIANTS TypeOK NoDoubleStaging AcknowledgedIsStored
PROPERTIES AcknowledgedReachesDisk RequestsAreAnswered
