SPECIFICATION Spec
CONSTANTS
    Users = {u1, u2}
    Emails = {a, b}
    Names = {"root"}
    Changers = {u1}
    Requests = {r1, r2}
    None = None
    OpSets <- MCOpSets
    SignUpEnabled = TRUE
    VerificationRequired = TRUE
    OtpTtl = 2
    PendingTtl = 3
    Period = 4
    CompletedTtl = 5
    Limit = 2
    SendLimit = 2
    MaxCodes = 2
    MaxRequests = 5
    MaxCrashes = 1
INVARIANTS
    VerifiedIsProven
    TriesBounded
PROPERTIES
    ChangesSpaced
SYMMETRY Symmetric
CHECK_DEADLOCK FALSE
