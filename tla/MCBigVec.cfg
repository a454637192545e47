SPECIFICATION Spec
CONSTANTS
    v1 = v1
    v2 = v2
    v3 = v3
    v4 = v4
    v5 = v5
    Votes = {v1, v2, v3, v4, v5}
    Blank = Blank
    BufferLengths = {18, 20, 21, 23, 24}
    HEADER_LEN = 5
    VEC_SIZE_BYTES = 4
    RECORD_LEN = 3
SYMMETRY Symmetry
INVARIANTS
    PushNeverRefused
    BigVecTypeOK
    VotesDistinct
    RetainIsFilter
