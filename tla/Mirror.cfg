SPECIFICATION FairSpec
CONSTANTS
    Cell = {c1, c2}
    Text = {t1, t2}
    Same = Same
    Top = Top
    Agent = {a1}
    Reads = {a1}
    Writes = {a1}
    Request = {r1}
    InitialOrder <- OneCell
    DefaultText <- AnyText
    Get = Get
    NoId = NoId
    NoDoc = NoDoc
    BufferCap = 1
    MaxEdits = 2
    MaxLosses = 1
    MaxOutages = 1
    BlindVersion = {0}
INVARIANTS MirrorSound
PROPERTIES MirrorCatchesUp
CHECK_DEADLOCK FALSE
