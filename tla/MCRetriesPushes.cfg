CONSTANTS
    Parts = {"pushes"}
    Requests = {q1}
    Payloads = {x}
    SlowHandlers = TRUE
    Crashes = TRUE
    Expiry = TRUE
    None = None
    Pushes = {p1}
    Devices = {d1}
    Browsers = {b1}
    Workers = {w1}
    MaxRetries = 1
    FailureLimit = 2
    RetryAnswers = {"sent", "rejected"}
    MaxMishaps = 1
    MaxChanges = 2
SPECIFICATION RetriesFairSpec
CHECK_DEADLOCK FALSE
INVARIANTS
    NoSecondCopy
    DeadIsSwitchedOff
PROPERTIES
    PushEnds
