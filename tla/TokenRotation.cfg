SPECIFICATION TokenSpec
CONSTANTS
    Families = {f1, f2}
    TokenIds = {t1, t2, t3, t4, t5}
    Rotations = {r1, r2}
    NoToken = NoToken
INVARIANTS
    RevokedOnlyOnReuse
    RotatedTwiceOnlyIfOverlapped
    RevivedOnlyIfOverlapped
SYMMETRY Symmetric
CHECK_DEADLOCK FALSE
