CONSTANTS
    n1 = n1
    n2 = n2
    Names <- MCNames
    Worlds <- MCWorlds
    Deleted = Deleted
    Any = Any
    Requests = {r1, r2}
    Cap = 2
    Limit = 2
    MaxRecords = 10
    MaxRequests = 2
SPECIFICATION Spec
CHECK_DEADLOCK FALSE
INVARIANTS SnapshotsKeepTheirKeys CascadesMissNothing CallbackEndsWithTheUser NoDeletedOrgListed ListingsCoverTheLive
PROPERTIES SameKeyOnlyByRace RevivedOnlyByRace
