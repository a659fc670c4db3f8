SPECIFICATION RegSpec
CONSTANTS
    Ids = {m1}
    Weights = {w1, w2}
    Tokenizers = {t1}
    Contents = {c1, c2}
    TokContents = {d1}
    Architectures = {None}
    Unsupported = {w2}
    Writers = {p1, p2}
    None = None
    Missing = Missing
    Absent = Absent
    Empty = Empty
    Torn = Torn
SYMMETRY Symmetry
INVARIANTS RegTypeOK NeverTorn
PROPERTIES AckPublishes ImplementsStore
