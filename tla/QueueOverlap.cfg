\* Two workers and handlers that outlive the timeout of Exec.
SPECIFICATION Spec
CONSTANTS
    MaxRows = 1
    Payloads = {p1}
    Workers = {w1, w2}
    MaxRetries = 1
    Deadlines = {"none"}
    MaxCrashes = 0
INVARIANT OneExecutionPerJob
CHECK_DEADLOCK FALSE
