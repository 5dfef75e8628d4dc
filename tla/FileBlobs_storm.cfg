SPECIFICATION Spec
CONSTANTS
    Uploads = {u1, u2}
    Home = Home
    Trash = Trash
    Photos = Photos
    OldPhotos = OldPhotos
    Dirs = {Home, Trash}
    Trashed = {}
    Names = {n1}
    JobIds = {j1, j2}
    Clients = {c1, c2}
    None = None
    Backend = "s3"
    Ops = {"upload", "delete", "move", "move_to_trash", "empty_trash"}
    Serial = FALSE
    Drained = FALSE
    EarlyPickup = TRUE
    CrashSites = {"api", "move", "worker"}
    MaxCrashes = 1
INVARIANTS
    DeleteJobsAreSafe
PROPERTIES
    NoResurrection
SYMMETRY Symmetric
CHECK_DEADLOCK FALSE
