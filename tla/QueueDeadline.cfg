\* An audited reprocessing job (deadline one hour ahead) under the fair worker.
SPECIFICATION LiveSpec
CONSTANTS
    MaxRows = 1
    Payloads = {p1}
    Workers = {w1}
    MaxRetries = 2
    Deadlines = {"ahead"}
    MaxCrashes = 0
PROPERTY EveryJobSettles
CHECK_DEADLOCK FALSE
