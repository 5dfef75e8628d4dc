SPECIFICATION NamesSpec
CONSTANTS
    Uploads = {u1, u2, u3, u4, u5}
    Dirs = {d1, d2}
    Stems = {s1, s2}
    Literal = {s1}
    AskedTags <- UntaggedOrFirst
    NoFile = NoFile
INVARIANTS
    PlainContentKept
    PlainCopiesSequential
PROPERTIES
    OnlySecondGuessesCollide
SYMMETRY Symmetric
CHECK_DEADLOCK FALSE
