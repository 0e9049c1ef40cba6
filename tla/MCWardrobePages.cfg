SPECIFICATION Spec
CONSTANTS
    g1 = g1
    g2 = g2
    l1 = l1
    Items <- MCItems
    Guest <- MCGuest
    Wardrobes <- MCWardrobes
    HasCapsule = TRUE
    Requests = {r1, r2}
    None = None
INVARIANTS
    CountersAgree
    ListsHoldTheirOwn
    UndisturbedIsStored
SYMMETRY MCSymmetry
