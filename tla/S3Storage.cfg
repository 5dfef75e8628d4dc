SPECIFICATION Spec
CONSTANTS
    Dirs <- MCDirs
    Begins <- MCBegins
    Names = {1, 2, 3}
    Stored <- MCStored
    Sizes = {1, 5, 6}
    Clients = {c1, c2}
    None = None
    MinPart = 2
    MaxParts = 3
    Concurrency = 2
    Page = 2
    Chunk = 2
    MaxFaults = 1
    MaxCalls = 2
    OpSets <- MCOpSets
SYMMETRY Symmetry
INVARIANTS
    ObjectsWhole
    DanglingKnown
    
    
CHECK_DEADLOCK FALSE
