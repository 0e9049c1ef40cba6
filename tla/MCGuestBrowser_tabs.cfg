\* Two tabs, two accounts, two requests, two calls of the API; passwords and Google.
SPECIFICATION Spec
CONSTANTS
    u1 = u1
    u2 = u2
    t1 = t1
    t2 = t2
    a1 = a1
    a2 = a2
    tab1 = tab1
    tab2 = tab2
    Users = {u1, u2}
    Transfers = {t1, t2}
    CatalogSize = 3
    WardrobeOf <- MCWardrobeOf
    Picks <- MCPicks
    Wardrobes = {"female"}
    MaxPicked = 2
    Statuses = {"uncapsulated"}
    Patches = {}
    Attempts = {a1, a2}
    Tabs = {tab1, tab2}
    Drafts <- MCDrafts
    Empty <- MCEmpty
    Looks <- MCLooks
    NoInput = NoInput
    NoRow = NoRow
    Keep = Keep
    NoUser = NoUser
    NoTransfer = NoTransfer
    NoIntent = NoIntent
    NoTab = NoTab
    NoCall = NoCall
SYMMETRY NameSymmetry
CHECK_DEADLOCK FALSE
INVARIANTS
    SavedIsWhatWasAsked
    BoundToOneAccount
PROPERTIES
    DraftSurvives
