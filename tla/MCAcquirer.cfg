\* Everything at once: late lines, the horizon, resent readings, crashes, unreadable files.
CONSTANTS
    n1 = n1  n2 = n2  freq = freq  volt = volt
    Nodes = {n1}
    Payloads <- One
    MaxHour = 4
    WeekOf <- mcWeekOf
    Lag = 1
    Resend = TRUE
    Conflict = FALSE
    MaxLines = 3
    MaxCrashes = 1
    MaxUnreadable = 1
SPECIFICATION Spec
INVARIANTS TypeOK LakeIsOldStaging NothingIsSkipped
PROPERTIES LakeKeepsReadings MergeDeduplicates
