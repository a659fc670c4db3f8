SPECIFICATION CacheSpec
CONSTANTS
    Ids = {m1}
    Weights = {w1}
    Tokenizers = {t1}
    Contents = {c1, c2}
    TokContents = {d1}
    Architectures = {qwen3}
    None = None
    Missing = Missing
    Devices = {cpu}
    Threads = {r1, r2}
    Gguf = {w1}
    Supported = {qwen3}
INVARIANTS FreshAtReturn CacheIntegrity
PROPERTY ReloadsStop
