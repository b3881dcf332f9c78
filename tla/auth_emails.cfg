CONSTANTS
    Users = {u1, u2}
    Tokens = {t1, t2}
    Emails = {e1, e2}
    Requests = {r1}
    Deleted = Deleted
    Ops <- RenameOps
    Cap = 3
    ScanLimit = 2
    MaxRequests = 4
SPECIFICATION Spec
CHECK_DEADLOCK FALSE
INVARIANT EmailsAreUnique
