CONSTANTS
    Requests = {r1, r2}
    Slashes = {}
    QueueCap = 2
    MaxAborts = 0
    MaxRestarts = 0
    None = None
SPECIFICATION Spec
INVARIANTS ReplyIsOwnAlways
CHECK_DEADLOCK FALSE
