CONSTANTS
    None = None
    Devices = {d1, d2}
    ActDevices = {d1}
    Requests = {r1, r2}
    m1 = m1
    m2 = m2
    m3 = m3
    c1 = c1
    c2 = c2
    QueueCap = 1
    Pollers = {l1, l2}
    MaxWalks = 2
    MaxKeys = 1
    MaxCuts = 1
    Forms <- MCForms
    RoughForms <- MCRough
    Tickets = {t1, t2}
    Sessions = {s1, s2}
    Callers = {r1, r2, o1}
    Operators = {o1}
    Interval = 2
    OpInterval = 1
    BackoffMin = 1
    BackoffMax = 3
    MaxWait = 4
    Patience = {1, 5}
    Horizon = 4
    Endpoints = {e1, e2}
    NotifKeep = 1
    DayMinutes = 3
    MaxNotifs = 2
    NDialogs = 2
    Excerpts = {"e1", "e2"}
    Phones = {p1, p2}
    MaxTouches = 1
    Items = {i1}
    Tasks = {k1}
    MaxWrites = 3
    MaxLines = 2
    MaxFaults = 2
    MaxLost = 1
SYMMETRY Symmetry
SPECIFICATION AllSpec
INVARIANTS BudgetKept SendsSound MenuSound DoneIsTrue TicketsSound PushSound ApprovalsTrue ActionsTrue EveryLineOnce
PROPERTIES TicketIsOneShot
CHECK_DEADLOCK FALSE
