SPECIFICATION Spec
CONSTANTS
    Posts = {p1, p2}
    Times = {1}
    FlushEvery = 2
    AckEvery = 4
    MaxLog = 5
    MaxCrashes = 2
SYMMETRY PostSymmetry
INVARIANT DeletedPostsStayGone
CHECK_DEADLOCK FALSE
