SPECIFICATION Spec
CONSTANTS
    rOther = rOther
    s1 = s1
    s2 = s2
    Requests = {a, plain, rOther}
    Sessions = {s1, s2}
    SessionOf <- SessionOfRequest
    Streaming = {a, rOther}
    Capacity = 1
    MaxDeltas = 2
    Stalling = {rOther}
    Nobody = Nobody
INVARIANTS KvIsolation LockDiscipline StreamWellFormed
PROPERTIES DisconnectFrees Answered
