SPECIFICATION MCSpec
CONSTANTS
    User = {ann, bob}
    Owner = ann
    Token = {t1, t2}
    Call = {c1, c2}
    Ttl = 3
    RenewAfter = 1
    MaxTime = 4
    MaxPushes = 2
    Nothing = Nothing
SYMMETRY Tabs
CONSTRAINT SessionsThenNotebook
INVARIANTS SessionsSound AnswersTrue
PROPERTY EndedStaysEnded
CHECK_DEADLOCK FALSE
