--------------------------- MODULE GuidedJourney ---------------------------
(***************************************************************************)
(* The guided journey (app/src/components/guided-journey): the user picks  *)
(* a wardrobe type, ticks categories, then adds items and colours, in any  *)
(* order and going back at will.  "Create" starts a timer that nothing     *)
(* cancels: when it ends the journey says the capsule is created and sends *)
(* the user to the capsule page.  Only what the user does and the timers   *)
(* are here; opening and leaving the page is in CapsulePages.              *)
(***************************************************************************)
EXTENDS ColorCompatibility, Integers, Sequences, SequencesExt

CONSTANTS
    Colors, GroupOf,          \* the colours of the palette, the group of each
    Items, ItemColors,        \* photos, which have no colours yet, and catalog items, the dominant first
    GarderTypes, CategoriesOf,\* the wardrobe types, the built-in categories of each
    HandoffType,              \* the type a search hand-off starts with ("mixed")
    CustomCategories,         \* the categories a user may type in
    MinCategories,            \* 8 in the code
    MaxTotalColors, MaxChromaticColors, \* 15 and 12
    MaxCount,                 \* bounds the quantity of a category
    MaxTimers,                \* bounds the creations under way
    None

ASSUME ColorsAssumption ==
    /\ GroupOf \in [Colors -> ColorGroup]
    /\ ItemColors \in [Items -> Seq(Colors)]
    /\ None \notin Colors
ASSUME CategoriesAssumption == HandoffType \in GarderTypes /\ None \notin GarderTypes
ASSUME BoundsAssumption ==
    /\ MinCategories \in Nat /\ MaxTotalColors \in Nat /\ MaxChromaticColors \in Nat
    /\ MaxCount \in Nat /\ MaxTimers \in Nat

VARIABLES
    step,             \* 1: type, 2: categories, 3: items and colours
    selectedType,
    categoryState,    \* category to [count, selected]
    addedItems,       \* the items the user added, by id
    selectedColorIds, \* in the order of selection
    isCreating,
    created,
    timers            \* creations of this visit whose timer is running

journey == <<step, selectedType, categoryState, addedItems, selectedColorIds, isCreating, created>>
journeyVars == <<journey, timers>>

-----------------------------------------------------------------------------
(* Derived state *)

Selected == {c \in DOMAIN categoryState : categoryState[c].selected}

EnoughCategories == Cardinality(Selected) >= MinCategories

Chromatic(c) == GroupOf[c] # "achromatic"

Palette == ToSet(selectedColorIds)

\* None, or the chromatic colour the user selected first
baseChromaticColor ==
    LET chromatic == {i \in DOMAIN selectedColorIds : Chromatic(selectedColorIds[i])}
    IN  IF chromatic = {} THEN None
        ELSE selectedColorIds[CHOOSE i \in chromatic : \A j \in chromatic : i <= j]

arePaletteColorGroupsCompatible(base, target) ==
    base # None => areColorGroupsCompatible(GroupOf[base], GroupOf[target])

-----------------------------------------------------------------------------
(* The page as it is opened: afresh, or by a search that hands over a       *)
(* category, with enough categories ticked                                 *)

buildCategoryState(type, chosen) ==
    [c \in CategoriesOf[type] |-> [count |-> 1, selected |-> c \in chosen]]

\* Nothing done yet; also what is kept of a journey that is not open.
Fresh ==
    /\ step = 1 /\ selectedType = None /\ categoryState = <<>>
    /\ addedItems = {} /\ selectedColorIds = <<>>
    /\ isCreating = FALSE /\ created = FALSE

StartAt(newStep, type, categories) ==
    /\ step' = newStep /\ selectedType' = type /\ categoryState' = categories
    /\ addedItems' = {} /\ selectedColorIds' = <<>>
    /\ isCreating' = FALSE /\ created' = FALSE

OpenFresh == StartAt(1, None, <<>>)

buildInitialSearchHandoffSetup(chosen) ==
    /\ Cardinality(chosen) <= MinCategories
    /\ Cardinality(chosen) = MinCategories \/ chosen = CategoriesOf[HandoffType]
    /\ StartAt(3, HandoffType, buildCategoryState(HandoffType, chosen))

OpenFromSearch == \E chosen \in SUBSET CategoriesOf[HandoffType] : buildInitialSearchHandoffSetup(chosen)

-----------------------------------------------------------------------------
(* Steps 1 and 2 *)

\* A type, even the same one again, resets everything after it.
selectType(type) ==
    /\ step = 1
    /\ StartAt(2, type, buildCategoryState(type, {}))
    /\ UNCHANGED timers

goToStep(nextStep) ==
    /\ <<step, nextStep>> \in {<<2, 1>>, <<2, 3>>, <<3, 2>>}
    /\ nextStep = 2 => selectedType # None
    /\ nextStep = 3 => EnoughCategories
    /\ step' = nextStep
    /\ UNCHANGED <<selectedType, categoryState, addedItems, selectedColorIds, isCreating, created, timers>>

ChangeCategories(newState) ==
    /\ step = 2
    /\ categoryState' = newState
    /\ UNCHANGED <<step, selectedType, addedItems, selectedColorIds, isCreating, created, timers>>

\* A ticked category keeps its quantity, zero included.
toggleCategory(c) ==
    /\ c \in DOMAIN categoryState
    /\ ChangeCategories([categoryState EXCEPT ![c].selected = ~@])

adjustCategoryCount(c, delta) ==
    /\ c \in DOMAIN categoryState
    /\ LET wanted == categoryState[c].count + delta
           count == IF wanted < 0 THEN 0 ELSE wanted
       IN  /\ count <= MaxCount
           /\ ChangeCategories([categoryState EXCEPT ![c] = [count |-> count, selected |-> count > 0]])

\* A label that is empty, refused or already there changes nothing.
addCustomCategory(c) ==
    /\ c \notin DOMAIN categoryState
    /\ ChangeCategories([d \in DOMAIN categoryState \cup {c} |->
                            IF d = c THEN [count |-> 1, selected |-> TRUE] ELSE categoryState[d]])

-----------------------------------------------------------------------------
(* Step 3 *)

ChangeDesign(newItems, newColors) ==
    /\ step = 3
    /\ addedItems' = newItems /\ selectedColorIds' = newColors
    /\ UNCHANGED <<step, selectedType, categoryState, isCreating, created, timers>>

isItemColorCompatible(item) ==
    ItemColors[item] # <<>> =>
        arePaletteColorGroupsCompatible(baseChromaticColor, ItemColors[item][1])

\* Only the dominant colour of a catalog item must go, and only with the first chromatic colour.
addItem(item) ==
    /\ isItemColorCompatible(item)
    /\ ChangeDesign(addedItems \cup {item}, selectedColorIds)

removeItem(item) == ChangeDesign(addedItems \ {item}, selectedColorIds)

\* Mutant: the items already added are not looked at.
colorAvailabilityByPalette(color) ==
    /\ Len(selectedColorIds) < MaxTotalColors
    /\ Chromatic(color) => Cardinality({c \in Palette : Chromatic(c)}) < MaxChromaticColors
    /\ arePaletteColorGroupsCompatible(baseChromaticColor, color)
colorAvailability(color) ==
    /\ Len(selectedColorIds) < MaxTotalColors
    /\ Chromatic(color) => Cardinality({c \in Palette : Chromatic(c)}) < MaxChromaticColors
    /\ arePaletteColorGroupsCompatible(baseChromaticColor, color)
    /\ \A item \in addedItems : \A i \in DOMAIN ItemColors[item] :
           areColorGroupsCompatible(GroupOf[ItemColors[item][i]], GroupOf[color])

toggleColor(color) ==
    \/ \E i \in DOMAIN selectedColorIds :
           /\ selectedColorIds[i] = color
           /\ ChangeDesign(addedItems, RemoveAt(selectedColorIds, i))
    \/ /\ color \notin Palette
       /\ colorAvailability(color)
       /\ ChangeDesign(addedItems, Append(selectedColorIds, color))

createCapsule ==
    /\ step = 3
    /\ ~isCreating /\ selectedType # None /\ EnoughCategories
    /\ timers < MaxTimers
    /\ isCreating' = TRUE /\ created' = FALSE
    /\ timers' = timers + 1
    /\ UNCHANGED <<step, selectedType, categoryState, addedItems, selectedColorIds>>

\* The timer of a creation ends while the page is open, whatever the user has done since.
TimerEnds ==
    /\ timers > 0
    /\ timers' = timers - 1
    /\ isCreating' = FALSE /\ created' = TRUE
    /\ UNCHANGED <<step, selectedType, categoryState, addedItems, selectedColorIds>>

UserStep ==
    \/ \E type \in GarderTypes : selectType(type)
    \/ \E next \in 1..3 : goToStep(next)
    \/ \E c \in DOMAIN categoryState :
           toggleCategory(c) \/ \E delta \in {-1, 1} : adjustCategoryCount(c, delta)
    \/ \E c \in CustomCategories : addCustomCategory(c)
    \/ \E item \in Items : addItem(item) \/ removeItem(item)
    \/ \E color \in Colors : toggleColor(color)
    \/ createCapsule

-----------------------------------------------------------------------------
JourneyTypeOK ==
    /\ step \in 1..3
    /\ selectedType \in GarderTypes \cup {None}
    /\ addedItems \subseteq Items
    /\ selectedColorIds \in Seq(Colors)
    /\ isCreating \in BOOLEAN /\ created \in BOOLEAN
    /\ timers \in 0..MaxTimers

\* Whatever the order in which colours are selected and deselected and items added and removed, any
\* two colours of the palette go together and each goes with every item's dominant colour (toggleColor
\* compares with one colour of the palette only, addCatalogItem too), and no colour is there twice.
PaletteFits ==
    /\ \A c, d \in Palette : areColorGroupsCompatible(GroupOf[c], GroupOf[d])
    /\ \A c \in Palette, item \in addedItems :
           ItemColors[item] # <<>> => areColorGroupsCompatible(GroupOf[c], GroupOf[ItemColors[item][1]])
    /\ \A i, j \in DOMAIN selectedColorIds : selectedColorIds[i] = selectedColorIds[j] => i = j
=============================================================================
