SPECIFICATION CacheSpec
CONSTANTS
    Ids = {m1}
    Weights = {w1}
    Tokenizers = {t1}
    Contents = {c1, c2}
    TokContents = {d1, d2}
    Architectures = {qwen3}
    None = None
    Missing = Missing
    Devices = {cpu}
    Threads = {r1}
    Gguf = {w1}
    Supported = {qwen3}
SYMMETRY Symmetry
PROPERTY HitHasRegisteredTokenizer
