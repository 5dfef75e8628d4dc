SPECIFICATION Spec
CONSTANTS
    Files = {"file"}
    Folders = {"docs", "more"}
    Paths = {"here", "there", "elsewhere"}
    Home <- MCHome
    Photos = {"p1", "p2"}
    Tokens = {t1, t2}
    Keys = {k1}
    Clients = {c1, c2}
    None = None
    SharedLinksEnabled = TRUE
    Superuser = FALSE
    SessionTtl = 2
    MaxJobs = 2
    OpSets <- MCOpSets
INVARIANTS
    ServedOnce
    FolderServedKnown
PROPERTIES
    LinkRefusedKnown
    RevokedServedBriefly
SYMMETRY Symmetric
CHECK_DEADLOCK FALSE
