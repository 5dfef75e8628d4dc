SPECIFICATION FairSpec
CONSTANTS
    Blobs = {a, b}
    Hashes = {h}
    Chash <- SameContent
    Pictures = {a, b}
    Processed = {}
    Tagged = {a}
    Viewers = {v}
    Clients = {c1}
    JobIds = {j1, j2}
    BatchSize = 1
    Ops = {"delete_immediately"}
    MaxFaults = 1
    None = None
INVARIANTS
    ThumbnailsWhole
    TasksFailOnlyIfGone
PROPERTIES
    ContentProcessed
    Reclaimed
CHECK_DEADLOCK FALSE
