SPECIFICATION Spec
CONSTANTS
    Posts = {r1}
    Requests = {r1, r2, r3, r4}
    Actors = {ann, bob}
    Nobody = nobody
    Times = {1}
    ReadLimit = 3
    ScanLimit = 4
    QueryAddsTenant = FALSE
SYMMETRY RequestSymmetry
INVARIANT FallbackListsThePosts
CHECK_DEADLOCK FALSE
