SPECIFICATION FairSpec
CONSTANTS
    Posts = {p1, p2}
    Times = {1, 2}
    FlushEvery = 2
    AckEvery = 4
    MaxLog = 5
    MaxCrashes = 2
CONSTRAINT OneClockAhead
INVARIANTS TypeOK AckedPostsAreFlushed NoLivePostMissing ReplayedPostsAreExact
PROPERTIES OnlyDeletesUnlist FirstLifeIsExact CatchesUp
CHECK_DEADLOCK FALSE
