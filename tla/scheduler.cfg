SPECIFICATION FairRuns
CONSTANTS
    NumJobs = 2
    Period <- TwoPeriods
    Hash <- TwoHashes
    MaxLate = 3
INVARIANTS TypeOK NothingRunsAfterShutdown AtMostOneStartPerPeriod AtMostOneStartAfterStop
PROPERTIES EveryRunIsFollowed ShutdownTerminates
CHECK_DEADLOCK FALSE
