SPECIFICATION FairSpec
CONSTANTS
    Uploads = {u1, u2}
    Home = Home
    Trash = Trash
    Photos = Photos
    OldPhotos = OldPhotos
    Dirs <- MCDirs
    Trashed <- MCTrashed
    Names = {n1, n2}
    JobIds = {j1}
    Clients = {c1}
    None = None
    Backend = "filesystem"
    Ops <- AllOps
    Serial = TRUE
    Drained = TRUE
    EarlyPickup = FALSE
    CrashSites = {"worker"}
    MaxCrashes = 1

    
    
PROPERTIES
    StorageReclaimed
    
