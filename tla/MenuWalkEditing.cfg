CONSTANTS
    Forms <- MCForms
    MaxWalks = 0
    MaxTouches = 0
    MaxCuts = 1
SPECIFICATION Spec
PROPERTY RetryAlwaysFinishes
CHECK_DEADLOCK FALSE
