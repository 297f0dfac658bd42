CONSTANTS
    MaxChanges = 1
    Followers = {f1, f2}
    TailRows = 1
    NRows = 2
    NConvs = 3
    MaxEvents = 2
    MaxFaults = 1
    Requests = {r1, r2}
    Builds = {b1, b2}
    None = None
SPECIFICATION AllSpec
INVARIANTS ListNeverGoesBack RowsKept
PROPERTIES ListIsServed RowsFollow
CHECK_DEADLOCK FALSE
