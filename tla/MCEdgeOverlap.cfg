\* Two flushes at once: each of them ends.
CONSTANTS
    f1 = f1  f2 = f2
    Flushes = {f1, f2}
    Chunk = 1
    BufferRows = 1
    MaxAge = 1
    Outcomes <- AllOutcomes
    Overlap = TRUE
    MaxCaptured = 2
    MaxTime = 0
    MaxCrashes = 0
    MaxReloads = 1
    Nobody = Nobody
SPECIFICATION FairSpec
\* After an unload that failed nothing is left to do.
CHECK_DEADLOCK FALSE
PROPERTY FlushesEnd
