\* One flush appends its batch while another takes a chunk off the backlog.
CONSTANTS
    f1 = f1  f2 = f2
    Flushes = {f1, f2}
    Chunk = 1
    BufferRows = 3
    MaxAge = 1
    Outcomes = {"ok", "busy"}
    Overlap = TRUE
    MaxCaptured = 3
    MaxTime = 0
    MaxCrashes = 0
    MaxReloads = 0
    Nobody = Nobody
SPECIFICATION Spec
PROPERTY OnlySettledLeaves
