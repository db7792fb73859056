SPECIFICATION Spec
CONSTANTS
    q1 = q1  q2 = q2  q3 = q3  q4 = q4
    Requests = {q1, q2, q3, q4}
    RateLimited = {q1, q2, q3}
    Interval = 2
    MaxCalls = 2
    Window = 0
    NoRequest = NoRequest
SYMMETRY Symmetric
CHECK_DEADLOCK FALSE
INVARIANTS
    TypeOK
    GateNeverLost
PROPERTY
    NonceOrder
