CONSTANTS
    Parts = {"writes"}
    Requests = {q1, q2, q3, q4}
    Payloads = {x, y}
    SlowHandlers = TRUE
    Crashes = TRUE
    Expiry = TRUE
    None = None
    Pushes = {p1}
    Devices = {d1}
    Browsers = {b1}
    Workers = {w1}
    MaxRetries = 1
    FailureLimit = 2
    RetryAnswers = {"sent", "rejected"}
    MaxMishaps = 1
    MaxChanges = 2
SPECIFICATION RetriesSpec
SYMMETRY Symmetry
CHECK_DEADLOCK FALSE
INVARIANTS
    ReplayIsFaithful
PROPERTIES
    ImplementsPromise
