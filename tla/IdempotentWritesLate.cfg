CONSTANTS
    Requests = {q1, q2, q3, q4}
    Payloads = {x, y}
    SlowHandlers = TRUE
    Crashes = TRUE
    Expiry = TRUE
    None = None
SPECIFICATION Spec
CHECK_DEADLOCK FALSE
INVARIANT SameBodyReplayed
