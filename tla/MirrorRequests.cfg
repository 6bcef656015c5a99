SPECIFICATION Spec
CONSTANTS
    Cell = {c1, c2}
    Text = {t1, t2}
    Same = Same
    Top = Top
    Agent = {a1, a2}
    Reads = {a1}
    Writes = {a1, a2}
    Request = {r1, r2}
    InitialOrder <- OneCell
    DefaultText <- AnyText
    Get = Get
    NoId = NoId
    NoDoc = NoDoc
    BufferCap = 1
    MaxEdits = 1
    MaxLosses = 1
    MaxOutages = 0
    BlindVersion = {0}
SYMMETRY RequestSymmetry
INVARIANTS ReadsOwnWrites VerdictsTrue
PROPERTIES NoBlindOverwrite
CHECK_DEADLOCK FALSE
