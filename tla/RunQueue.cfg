SPECIFICATION OrderedFairSpec
CONSTANTS
    a = a  b = b
    Cell = {a, b}
    Text <- MCText
    InitialText <- MCTexts
    InitialOrder <- MCOrder
    Task = {1, 2}
    MaxCommands = 4
INVARIANTS QueueSound NothingHangs
PROPERTIES NoSilentDrop EditsLeaveMark QueueDrains
CHECK_DEADLOCK FALSE
