CONSTANTS
    full = full
    Devices = {full}
    Caps <- MCCaps
    Requests = {r1, r2}
    Chals = {c1}
    Versions = {1, 2}
    Sha <- ProgSha
    Par <- ProgPar
    Class <- ProgClass
    Sound = {1, 2}
    NeedsArm = {2}
    None = None
SPECIFICATION CalmSpec
INVARIANTS MarkIsTrue
PROPERTIES RunAnswered
CHECK_DEADLOCK FALSE
