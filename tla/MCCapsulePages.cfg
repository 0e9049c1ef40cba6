SPECIFICATION Spec
CONSTANTS
    A1 = A1
    B1 = B1
    D1 = D1
    K1 = K1
    photo = photo
    scarlet = scarlet
    navy = navy
    women = women
    mixed = mixed
    dress = dress
    boots = boots
    poncho = poncho
    Colors = {A1, B1, D1, K1}
    GroupOf <- MCGroupOf
    Items = {photo, scarlet, navy}
    ItemColors <- MCItemColors
    GarderTypes = {women, mixed}
    CategoriesOf <- MCCategoriesOf
    HandoffType = mixed
    CustomCategories = {poncho}
    MinCategories = 2
    MaxTotalColors = 3
    MaxChromaticColors = 2
    MaxCount = 1
    MaxTimers = 1
    None = None
    ColorCount = 32
    ItemCount = 16
    Capsules <- MCCapsules
INVARIANTS
    PaletteFits
    ShownCountIsCards
    NoTwinCards
    EvaluatorsAgree
PROPERTY AddingNeverLosesALook
