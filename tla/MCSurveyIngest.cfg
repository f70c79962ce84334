\* Two surveys: uploads, a withdrawal and the worker in any order; the worker
\* dies or fails once.
CONSTANTS
    s1 = s1  s2 = s2
    Surveys = {s1, s2}
    NFiles <- TwoAndOne
    Parts = 1
    Pqdif = {2}
    Unreadable = {s2}
    Withdrawn = {s1}
    MaxFaults = 1
    TimesAndPhases <- SharedRows
    None = None
    TimeList <- MCTimeList
    PhaseList <- MCPhaseList
    Values = {50, 240, 999}
    FreqBand = {50}
    VoltBand = {50, 240}
    Layouts <- MCLayouts
    NoValue = NoValue
SPECIFICATION FairSpec
INVARIANTS  AcceptedIsKept WideFilesAreRead LongFilesAreRead
PROPERTIES SurveysAreProcessed InboxIsPurged WithdrawnIsPurged
CHECK_DEADLOCK FALSE
