SPECIFICATION Spec
CONSTANTS
    Blobs = {a, b}
    Hashes = {h}
    Chash <- SameContent
    Pictures = {}
    Processed = {a, b}
    Tagged = {}
    Viewers = {}
    Clients = {c1, c2}
    JobIds = {j1, j2}
    BatchSize = 1
    Ops <- AllOps
    MaxFaults = 1
    None = None
INVARIANTS
    ItemsHaveContent
    OnePagePurged
PROPERTIES
    PurgeSparesLive
SYMMETRY Symmetric
CHECK_DEADLOCK FALSE
