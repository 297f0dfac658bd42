CONSTANTS
    Devices = {d1}
    ActDevices = {d1}
    Requests = {r1, r2}
    Codes = {c1}
    Creds = {k1}
    MaxFails = 3
    NoVal = NoVal
    Empty = Empty
    None = None
SPECIFICATION Spec
INVARIANTS RevokeDeletesCreds
CHECK_DEADLOCK FALSE
