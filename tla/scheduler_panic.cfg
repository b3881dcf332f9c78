SPECIFICATION Spec
CONSTANTS
    NumJobs = 2
    Period <- TwoPeriods
    Hash <- TwoHashes
    MaxLate = 3
INVARIANT PanicsNeverEndASchedule
CHECK_DEADLOCK FALSE
