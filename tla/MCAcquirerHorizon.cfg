\* The horizon holds rows back that the covered hour then skips.
CONSTANTS
    n1 = n1  n2 = n2  freq = freq  volt = volt
    Nodes = {n1}
    Payloads <- One
    MaxHour = 3
    WeekOf <- mcWeekOf
    Lag = 1
    Resend = FALSE
    Conflict = FALSE
    MaxLines = 2
    MaxCrashes = 0
    MaxUnreadable = 0
SPECIFICATION Spec
INVARIANT HeldBackIsRead
