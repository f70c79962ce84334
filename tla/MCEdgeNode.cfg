\* One flush at a time: every answer of the server, crashes, reloads, pruning.
CONSTANTS
    f1 = f1  f2 = f2
    Flushes = {f1}
    Chunk = 2
    BufferRows = 2
    MaxAge = 1
    Outcomes <- Reported
    Overlap = FALSE
    MaxCaptured = 3
    MaxTime = 2
    MaxCrashes = 1
    MaxReloads = 1
    Nobody = Nobody
SPECIFICATION FairSpec
INVARIANTS TypeOK RowsAreAccountedFor
PROPERTIES OnlySettledLeaves EveryRowIsSettled OnlineIsTrue IsAnOutbox
