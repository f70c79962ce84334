\* Two flows at once, on one node; calls and answers that get lost.
CONSTANTS
    n1 = n1  n2 = n2  f1 = f1  f2 = f2  freq = freq  volt = volt  p1 = p1  r1 = r1  g1 = g1
    Nodes = {n1}
    Accounts = {}
    Channels = {freq, volt}
    Postcodes = {p1}
    Regions = {r1}
    Areas = {g1}
    AreaOf <- mcAreaOf
    None = None
    Flows = {f1, f2}
    Frequency = freq
    Sensors = {volt}
    Locations <- mcLocations
    MaxDue = 0
SPECIFICATION FairSpec
INVARIANTS TypeOK EntryShowsTheServer NodesCanBeErased SharedSensorsAreMapped
PROPERTIES ErasedStaysErased RevokedIsNotCaptured
CHECK_DEADLOCK FALSE
