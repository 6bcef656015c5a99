SPECIFICATION FairSpec
CONSTANTS
    c1 = c1
    c2 = c2
    Cell = {c1, c2}
    Text = {t0, t1}
    DefaultText = t0
    Same = Same
    Top = Top
    InitialOrder <- OneCell
    MaxVersion = 2
    AgentVersion <- VersionRange
INVARIANTS
    DocumentSound
    VersionsAgree
    PanesFollowModel
PROPERTIES
    VersionNamesText
    EditMarksDownstream
    TypedTextIsSaved
CHECK_DEADLOCK FALSE
