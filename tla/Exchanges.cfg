CONSTANTS
    Posts = {p1, p2}
    NGates = 2
    MaxFaults = 1
    Requests = {r1, r2}
    Slashes = {}
    TypeCap = 2
    MaxAborts = 1
    MaxReboots = 1
    None = None
    Reqs = {m1}
    c1 = c1
    l1 = l1
    Sessions = {c1}
    Of <- ToOne
    QueueCap = 2
    Pollers = {l1, l2}
    MaxRestarts = 2
    MaxCut = 1
SPECIFICATION AllSpec
INVARIANTS GatesSound RequestsApart TrackerSound RetryIsSafe
PROPERTIES GatesFollowed ReplyComes SendSettles
CHECK_DEADLOCK FALSE
