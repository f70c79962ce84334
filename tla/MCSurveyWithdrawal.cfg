\* A withdrawal while the worker processes the survey.
CONSTANTS
    s1 = s1  s2 = s2
    Surveys = {s1}
    NFiles <- Two
    Parts = 1
    Pqdif = {2}
    Unreadable = {}
    Withdrawn = {s1}
    MaxFaults = 0
    TimesAndPhases <- SharedRows
    None = None
    TimeList <- MCTimeList
    PhaseList <- MCPhaseList
    Values = {50, 240, 999}
    FreqBand = {50}
    VoltBand = {50, 240}
    Layouts <- MCLayouts
    NoValue = NoValue
SPECIFICATION Spec
INVARIANT ArchiveStaysPurged
CHECK_DEADLOCK FALSE
