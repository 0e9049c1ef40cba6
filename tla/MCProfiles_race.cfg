\* Two identities, two addresses, three concurrent requests; the owner's edit of a name differs
\* from the name in the traits.
SPECIFICATION ProfilesSpec
CONSTANTS
    i1 = i1
    i2 = i2
    e1 = e1
    e2 = e2
    n1 = n1
    n2 = n2
    c1 = c1
    c2 = c2
    c3 = c3
    Identities = {i1, i2}
    Emails = {e1, e2}
    Names = {n1, n2}
    GivenNames = {n1}
    EnsureCalls = {c1, c2, c3}
    NoName = NoName
    NoTraits = NoTraits
    NoRow = NoRow
SYMMETRY NameSymmetry
CHECK_DEADLOCK FALSE
PROPERTIES
    SessionsGetTheirProfile
    EditsSurviveRefresh
