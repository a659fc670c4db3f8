SPECIFICATION Spec
CONSTANTS
    arxiv = arxiv
    blog = blog
    q1 = q1
    broad = broad
    narrow = narrow
    Searches = {q1, q2, q3}
    Sources = {arxiv, blog}
    Keys = {broad, narrow}
    KeyOf <- TwoKeys
    Selected <- SourcesOfKey
    Interval <- Intervals
    MaxConcurrency = 2
    Timeout = 1
    Retrying = {arxiv}
    MaxRetries = 1
    RetryAfter = {0}
    BaseDelay = 1
    TTL = 0
    Prompt = TRUE
    LastStart = 0
    MaxTime = 4
    None = None
INVARIANTS EveryAccounted BoundedDelay RateBounded
PROPERTIES CallsSpaced Finishes
