CONSTANTS
    m1 = m1
    m2 = m2
    s1 = s1
    Sessions = {s1}
    Reqs = {m1, m2}
    Of <- OneSession
    QueueCap = 1
    Pollers = {p1}
    MaxRestarts = 0
    MaxCut = 0
    None = None
SPECIFICATION Spec
PROPERTIES BubbleNeverWalksBack
CHECK_DEADLOCK FALSE
