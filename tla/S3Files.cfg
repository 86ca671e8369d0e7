\* One goroutine looks while another one changes the bucket, twice.
CONSTANTS
    r = r
    w = w
    Proc = {r, w}
    Key <- Keys
    Value = {x}
    May <- Roles
    PageSize = 1
    MaxCalls <- Few
    MaxLen = 2
    NoName = 0
    Absent = Absent
    NoDraft = NoDraft
\* The number of calls is bounded.
CHECK_DEADLOCK FALSE
SPECIFICATION FairSpec
INVARIANTS TypeOK FilesInv StatTruth ListingTruth
PROPERTIES FilesAreWhole CallsReturn
