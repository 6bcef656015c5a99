SPECIFICATION OrderedSpec
CONSTANTS
    Request = {1, 2, 3}
    Cell = {dashed, underscored, other}
    Artifact = {shared, own}
    ArtifactOf <- MCArtifactOf
    Source = {good, fine, bad}
    Compiles = {good, fine}
    Asks <- EditedAsks
    MaxBuilds = 2
    Burst = 1
    MaxFaults = 1
    Nothing = Nothing
    dashed = dashed
    underscored = underscored
    other = other
    shared = shared
    own = own
    good = good
    fine = fine
    bad = bad
INVARIANT CacheIsTrue
CHECK_DEADLOCK FALSE
