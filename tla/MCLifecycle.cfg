\* Registration, consent changes and erasure racing each other and a batch.
CONSTANTS
    n1 = n1  n2 = n2  a1 = a1  a2 = a2  freq = freq  power = power
    p1 = p1  p2 = p2  r1 = r1  g1 = g1  g2 = g2  i1 = i1  i2 = i2  t1 = t1  t2 = t2
    Nodes = {n1, n2}
    Accounts = {a1, a2}
    Channels = {freq, power}
    Postcodes = {p1, p2}
    Regions = {r1}
    Areas = {g1, g2}
    AreaOf <- mcAreaOf
    None = None
    Threads = {t1, t2}
    NoThread = NoThread
    MaxSize = 4
    Instants = {i1, i2}
    Requests <- LifecycleRequests
    MaxFaults = 0
SYMMETRY Perms
SPECIFICATION Spec
INVARIANTS ErasureIsComplete LocationIsCoherent
PROPERTIES OnlyTheOwnerWrites StagedUnderConsent RequestsAreAtomic
