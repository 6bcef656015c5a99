SPECIFICATION MCSpec
CONSTANTS
    Page = {p1, p2}
    MaxText = 4
    Size <- MCSize
    Cap = 4
    Others = 0
    MaxUpload = 2
    MaxActs = 2
    MaxFaults = 1
    MaxReloads = 1
INVARIANTS RowSound NoSilentLoss SomePageIsTrue
PROPERTIES NotebookPromise PushPublishesClicked AutosaveSettles
CHECK_DEADLOCK FALSE
