\* Two accounts, two transfers, two calls in flight and owners who edit entries meanwhile.
SPECIFICATION FairSpec
CONSTANTS
    u1 = u1
    u2 = u2
    t1 = t1
    t2 = t2
    a1 = a1
    a2 = a2
    Users = {u1, u2}
    Transfers = {t1, t2}
    CatalogSize = 2
    WardrobeOf <- MCWardrobeOf
    Picks <- MCPicks
    Wardrobes = {"female", "mixed"}
    MaxPicked = 2
    Statuses = {"uncapsulated", "active"}
    Patches <- MCPatches
    Attempts = {a1, a2}
    NoInput = NoInput
    NoRow = NoRow
    Keep = Keep
CHECK_DEADLOCK FALSE
INVARIANTS
    AckedIsStored
    RetriesAgree
    WardrobeIsUnionOfTransfers
    NoWaitCycle
PROPERTIES
    ImplementsLedger
    EditsSurviveSaves
    EveryCallEnds
