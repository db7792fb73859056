SPECIFICATION Spec
CONSTANTS
    q1 = q1  q2 = q2  q3 = q3  q4 = q4
    Requests = {q1, q2, q3}
    RateLimited = {q1, q2, q3}
    Interval = 2
    MaxCalls = 1
    Window = 4
    NoRequest = NoRequest
CHECK_DEADLOCK FALSE
INVARIANT
    RateKept
