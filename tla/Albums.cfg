SPECIFICATION Spec
CONSTANTS
    Items = {1, 2}
    Albums = {a1, a2, a3}
    Filled = {a1}
    Titles = {"foo", "foo 1", "other"}
    Slug <- MCSlug
    AsciiSlug <- MCAsciiSlug
    Clients = {c1, c2}
    None = None
    MaxCount = 2
    Asked <- Lists
    Created = a1
    FirstTitle = "foo"
    OpSets <- MCOpSets
INVARIANTS
    CountsDriftKnown
    
PROPERTIES
    RefusedKnown
SYMMETRY Symmetric
CHECK_DEADLOCK FALSE
