CONSTANTS
    Calls = {r1, r2}
    Keys = {k1, k2}
    Objects = {o1, o2, o3}
    MaxSessions = 1
    None = None
SPECIFICATION Spec
PROPERTIES HistoryAnswers
CHECK_DEADLOCK FALSE
