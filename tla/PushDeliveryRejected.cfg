CONSTANTS
    Pushes = {p1}
    Devices = {d1}
    Browsers = {b1}
    Workers = {w1}
    MaxRetries = 1
    FailureLimit = 2
    RetryAnswers = {"rejected"}
    MaxMishaps = 1
    MaxChanges = 2
SPECIFICATION Spec
CHECK_DEADLOCK FALSE
INVARIANT RetriedInFull
