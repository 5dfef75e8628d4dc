SPECIFICATION Spec
CONSTANTS
    HomeId = HomeId
    TrashId = TrashId
    Ids = {HomeId, TrashId, i1, i2, i3, i4}
    Names = {"a", "A", "b", "x", "Trash", "trash"}
    OtherNames = {"x"}
    Fold <- MCFold
    TrashName = "Trash"
    Askings <- MCAskings
    Clients = {c1, c2}
    None = None
    Quota = 1
    MaxDrift = 0
INVARIANTS
    
    TreeClosed
    SizesUntilEmptied
    QuotaNearlyKept
SYMMETRY Symmetric
CHECK_DEADLOCK FALSE
