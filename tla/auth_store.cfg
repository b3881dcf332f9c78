CONSTANTS
    Users = {u1, u2, u3, u4}
    Tokens = {t1, t2, t3}
    Emails = {e1, e2}
    Requests = {r1, r2}
    Deleted = Deleted
    Ops <- AllOps
    Cap = 3
    ScanLimit = 2
    MaxRequests = 5
SPECIFICATION Spec
CONSTRAINT SignedInOrder
SYMMETRY Symmetry
CHECK_DEADLOCK FALSE
INVARIANTS TypeOK DeletedStaysDeleted NoLateEntry SessionsGoFirst SessionsKeepTheirUser
PROPERTY SameEmailOnlyByRace
