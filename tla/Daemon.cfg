SPECIFICATION FairSpec
CONSTANTS
    MaxGeneration = 3
    None = None
INVARIANTS ReportsNeverAhead CleanIsEarned
PROPERTIES ReportedNeverFalls SignalEndsProcess
