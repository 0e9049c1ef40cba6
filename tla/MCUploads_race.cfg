\* One job and the completions of its owner and of somebody else.
SPECIFICATION Spec
CONSTANTS
    u1 = u1
    u2 = u2
    j1 = j1
    j2 = j2
    c1 = c1
    c2 = c2
    c3 = c3
    e1 = e1
    e2 = e2
    Users = {u1, u2}
    Jobs = {j1}
    Calls = {c1, c2}
    Metas <- MCMetas
    ETags = {e1}
    MaxPhotoBytes = 10485760
    NoInput = NoInput
    NoObject = NoObject
    NoRow = NoRow
    Malformed = Malformed
SYMMETRY NameSymmetry
CHECK_DEADLOCK FALSE
INVARIANTS
    CompletedHasItsAsset
    AssetIsVerified
    AckedIsCompleted
    RetriesNeverCollide
    NoOrphanObject
    ObjectKeepsItsShape
