CONSTANTS
    a1 = a1
    q1 = q1
    r1 = r1
    r2 = r2
    Sessions = {s1}
    Dialogs = {a1, q1}
    Questions = {q1}
    Replies = {r1, r2}
    Labels = {"l1", "l2"}
    StallThreshold = 2
    MaxShows = 3
    MaxFaults = 2
    None = None
    MaxCuts = 1
SPECIFICATION AllSpec
INVARIANTS PushesOnce
PROPERTIES EventsPushed RetryFinishes
CHECK_DEADLOCK FALSE
