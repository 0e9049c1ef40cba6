------------------------- MODULE CapsulePagesProofs -------------------------
(***************************************************************************)
(* The properties of CapsulePages for any palette, catalog and capsules.   *)
(* The palette fits because compatibility is an equivalence once           *)
(* achromatic colours are set aside, so one chromatic colour stands for    *)
(* all.  What the capsule page shows follows from the facts of             *)
(* OutfitsProofs about any list, once the list is known to be a part of    *)
(* what the page was opened with, and the stored count to be its count.    *)
(***************************************************************************)
EXTENDS CapsulePages, OutfitsProofs, SequenceTheorems

\* A sequence without its i-th element is one shorter, and what follows moves up.
LEMMA RemoveAtProperties ==
    ASSUME NEW S, NEW s \in Seq(S), NEW i \in 1..Len(s)
    PROVE  /\ RemoveAt(s, i) \in Seq(S) /\ Len(RemoveAt(s, i)) = Len(s) - 1
           /\ \A j \in 1..Len(s) - 1 : RemoveAt(s, i)[j] = IF j < i THEN s[j] ELSE s[j + 1]
<1> DEFINE left == SubSeq(s, 1, i - 1)
           right == SubSeq(s, i + 1, Len(s))
<1>0. Len(s) \in Nat /\ i \in Nat /\ i >= 1 /\ i <= Len(s) /\ \A j \in 1..Len(s) : s[j] \in S
  BY ElementOfSeq, LenProperties
<1> HIDE DEF left, right
<1>1. left \in Seq(S) /\ Len(left) = i - 1 /\ \A j \in 1..i - 1 : left[j] = s[j]
  <2>1. \A j \in 1..i - 1 : s[j] \in S
    BY <1>0
  <2>2. /\ left \in Seq(S) /\ Len(left) = IF 1 <= i - 1 THEN (i - 1) - 1 + 1 ELSE 0
        /\ \A j \in 1..(i - 1) - 1 + 1 : left[j] = s[1 + j - 1]
    BY <1>0, <2>1, SubSeqProperties DEF left
  <2> QED
    BY <1>0, <2>2
<1>2. right \in Seq(S) /\ Len(right) = Len(s) - i /\ \A j \in 1..Len(s) - i : right[j] = s[j + i]
  <2>1. \A j \in i + 1..Len(s) : s[j] \in S
    BY <1>0
  <2>2. /\ right \in Seq(S) /\ Len(right) = IF i + 1 <= Len(s) THEN Len(s) - (i + 1) + 1 ELSE 0
        /\ \A j \in 1..Len(s) - (i + 1) + 1 : right[j] = s[i + 1 + j - 1]
    BY <1>0, <2>1, SubSeqProperties DEF right
  <2>3. ASSUME NEW j \in 1..Len(s) - i
        PROVE  right[j] = s[j + i]
    <3>1. j \in 1..Len(s) - (i + 1) + 1 /\ i + 1 + j - 1 = j + i
      BY <1>0
    <3> QED
      BY <2>2, <3>1
  <2> QED
    BY <1>0, <2>2, <2>3
<1>3. RemoveAt(s, i) = left \o right
  BY DEF RemoveAt, left, right
<1>4. /\ left \o right \in Seq(S) /\ Len(left \o right) = (i - 1) + (Len(s) - i)
      /\ \A j \in 1..(i - 1) + (Len(s) - i) :
             (left \o right)[j] = IF j <= i - 1 THEN left[j] ELSE right[j - (i - 1)]
  <2>0. left \in Seq(S) /\ right \in Seq(S)
    BY <1>1, <1>2
  <2>1. /\ left \o right \in Seq(S) /\ Len(left \o right) = Len(left) + Len(right)
        /\ \A j \in 1..Len(left) + Len(right) :
               (left \o right)[j] = IF j <= Len(left) THEN left[j] ELSE right[j - Len(left)]
    BY <2>0, ConcatProperties
  <2> QED
    BY <1>1, <1>2, <2>1
<1> DEFINE both == left \o right
<1> HIDE DEF both
<1>5. /\ both \in Seq(S) /\ Len(both) = Len(s) - 1
      /\ \A j \in 1..Len(s) - 1 : both[j] = IF j < i THEN s[j] ELSE s[j + 1]
  <2>1. Len(both) = Len(s) - 1 /\ both \in Seq(S)
    BY <1>0, <1>4 DEF both
  <2>2. ASSUME NEW j \in 1..Len(s) - 1, j < i
        PROVE  both[j] = s[j]
    BY <1>0, <1>1, <1>4, <2>2 DEF both
  <2>3. ASSUME NEW j \in 1..Len(s) - 1, ~(j < i)
        PROVE  both[j] = s[j + 1]
    <3>1. j - (i - 1) \in 1..Len(s) - i /\ (j - (i - 1)) + i = j + 1
      BY <1>0, <2>3
    <3>2. both[j] = right[j - (i - 1)]
      BY <1>0, <1>4, <2>3 DEF both
    <3> QED
      BY <1>2, <3>1, <3>2
  <2> QED
    BY <2>1, <2>2, <2>3
<1> QED
  BY <1>3, <1>5 DEF both

USE ColorsAssumption

-----------------------------------------------------------------------------
(* The palette of the journey *)

PaletteInv ==
    /\ selectedColorIds \in Seq(Colors)
    /\ addedItems \subseteq Items
    /\ PaletteFits

\* Compatibility is symmetric, and transitive through a group that is not achromatic.
LEMMA CompatibilityThrough ==
    ASSUME NEW a \in ColorGroup, NEW b \in ColorGroup, NEW c \in ColorGroup
    PROVE  /\ areColorGroupsCompatible(a, a)
           /\ areColorGroupsCompatible(a, b) => areColorGroupsCompatible(b, a)
           /\ areColorGroupsCompatible(a, b) /\ areColorGroupsCompatible(b, c) /\ b # "achromatic"
                 => areColorGroupsCompatible(a, c)
  BY DEF ColorGroup, areColorGroupsCompatible

\* The base colour is None exactly when every colour is achromatic, otherwise it is a chromatic
\* colour of the palette.
LEMMA BaseIsChromatic ==
    ASSUME selectedColorIds \in Seq(Colors)
    PROVE  /\ baseChromaticColor = None => \A c \in Palette : ~Chromatic(c)
           /\ baseChromaticColor # None => baseChromaticColor \in Palette /\ Chromatic(baseChromaticColor)
<1> DEFINE chromatic == {i \in DOMAIN selectedColorIds : Chromatic(selectedColorIds[i])}
<1>1. CASE chromatic = {}
  BY <1>1 DEF baseChromaticColor, Palette, ToSet
<1>2. CASE chromatic # {}
  <2>1. chromatic \in SUBSET Nat
    OBVIOUS
  <2>2. PICK i \in chromatic : i = (CHOOSE k \in chromatic : \A j \in chromatic : k <= j)
    BY <1>2, <2>1, LeastNatural
  <2>3. baseChromaticColor = selectedColorIds[i]
    BY <1>2, <2>2 DEF baseChromaticColor
  <2>4. selectedColorIds[i] \in Colors
    BY ElementOfSeq
  <2> QED
    BY <2>3, <2>4 DEF Palette, ToSet
<1> QED
  BY <1>1, <1>2

\* What goes with the base colour goes with every colour of a palette that fits.
LEMMA BaseStandsForAll ==
    ASSUME PaletteInv, NEW g \in ColorGroup, NEW c \in Palette,
           baseChromaticColor # None => areColorGroupsCompatible(GroupOf[baseChromaticColor], g)
    PROVE  areColorGroupsCompatible(GroupOf[c], g)
<1>0. Palette \subseteq Colors
  BY ElementOfSeq DEF PaletteInv, Palette, ToSet
<1>1. CASE baseChromaticColor = None
  BY <1>1, BaseIsChromatic DEF PaletteInv, Chromatic, areColorGroupsCompatible
<1>2. CASE baseChromaticColor # None
  <2> DEFINE b == baseChromaticColor
  <2>1. b \in Palette /\ GroupOf[b] # "achromatic"
    BY <1>2, BaseIsChromatic DEF PaletteInv, Chromatic
  <2>2. areColorGroupsCompatible(GroupOf[c], GroupOf[b])
    BY <2>1 DEF PaletteInv, PaletteFits
  <2>3. GroupOf[b] \in ColorGroup /\ GroupOf[c] \in ColorGroup
    BY <1>0, <2>1
  <2> HIDE DEF b
  <2> QED
    BY <1>2, <2>1, <2>2, <2>3, CompatibilityThrough DEF b
<1> QED
  BY <1>1, <1>2

\* An empty palette fits.
LEMMA StartFits ==
    ASSUME selectedColorIds = <<>>, addedItems = {}
    PROVE  PaletteInv
  BY DEF PaletteInv, PaletteFits, Palette, ToSet

\* An item is added only when its dominant colour goes with the base colour, hence with all.
LEMMA AddItemFits ==
    ASSUME PaletteInv, NEW item \in Items, addItem(item)
    PROVE  PaletteInv'
<1>1. selectedColorIds' = selectedColorIds /\ addedItems' = addedItems \cup {item} /\ Palette' = Palette
  BY DEF addItem, ChangeDesign, Palette, ToSet
<1>2. ASSUME NEW c \in Palette, ItemColors[item] # <<>>
      PROVE  areColorGroupsCompatible(GroupOf[c], GroupOf[ItemColors[item][1]])
  <2> DEFINE d == ItemColors[item][1]
  <2>1. d \in Colors
    <3>1. ItemColors[item] \in Seq(Colors) /\ Len(ItemColors[item]) \in Nat \ {0}
      BY <1>2, EmptySeq
    <3> QED
      BY <3>1, ElementOfSeq
  <2>2. baseChromaticColor # None => areColorGroupsCompatible(GroupOf[baseChromaticColor], GroupOf[d])
    BY <1>2 DEF addItem, isItemColorCompatible, arePaletteColorGroupsCompatible
  <2> HIDE DEF d
  <2>3. areColorGroupsCompatible(GroupOf[c], GroupOf[d])
    BY <1>2, <2>1, <2>2, BaseStandsForAll
  <2> QED
    BY <2>3 DEF d
<1> QED
  BY <1>1, <1>2 DEF PaletteInv, PaletteFits

\* A colour that is taken away leaves a palette that fits; one that is selected goes with the base
\* colour and with every item.
LEMMA ToggleColorFits ==
    ASSUME PaletteInv, NEW color \in Colors, toggleColor(color)
    PROVE  PaletteInv'
<1> DEFINE old == selectedColorIds
           new == selectedColorIds'
<1>1. old \in Seq(Colors) /\ DOMAIN old = 1..Len(old) /\ Len(old) \in Nat
  BY LenProperties DEF PaletteInv
<1>2. addedItems' = addedItems
  BY DEF toggleColor, ChangeDesign
<1>3. CASE \E i \in DOMAIN old : new = RemoveAt(old, i)
  <2>1. PICK i \in 1..Len(old) : new = RemoveAt(old, i)
    BY <1>1, <1>3
  <2>5. /\ new \in Seq(Colors) /\ Len(new) = Len(old) - 1
        /\ \A j \in 1..Len(old) - 1 : new[j] = IF j < i THEN old[j] ELSE old[j + 1]
    BY <1>1, <2>1, RemoveAtProperties
  <2>6. DOMAIN new = 1..Len(old) - 1
    BY <2>5, LenProperties
  <2>7. Palette' \subseteq Palette
    BY <1>1, <2>5, <2>6 DEF Palette, ToSet
  <2>8. ASSUME NEW j \in DOMAIN new, NEW k \in DOMAIN new, new[j] = new[k]
        PROVE  j = k
    <3> DEFINE at(m) == IF m < i THEN m ELSE m + 1
    <3>1. at(j) \in 1..Len(old) /\ at(k) \in 1..Len(old) /\ (at(j) = at(k) => j = k)
      BY <1>1, <2>6
    <3>2. old[at(j)] = new[j] /\ old[at(k)] = new[k]
      BY <2>5, <2>6
    <3> QED
      BY <1>1, <2>8, <3>1, <3>2 DEF PaletteInv, PaletteFits
  <2> QED
    BY <1>2, <2>5, <2>7, <2>8 DEF PaletteInv, PaletteFits
<1>4. CASE color \notin Palette /\ colorAvailability(color) /\ new = Append(old, color)
  <2>1. /\ new \in Seq(Colors) /\ Len(new) = Len(old) + 1
        /\ \A j \in 1..Len(old) : new[j] = old[j]
        /\ new[Len(old) + 1] = color
    BY <1>1, <1>4, AppendProperties
  <2>2. DOMAIN new = 1..Len(old) + 1
    BY <2>1, LenProperties
  <2>3. Palette' = Palette \cup {color}
    BY <1>1, <2>1, <2>2 DEF Palette, ToSet
  <2>4. \A j, k \in DOMAIN new : new[j] = new[k] => j = k
    BY <1>1, <1>4, <2>1, <2>2 DEF PaletteInv, PaletteFits, Palette, ToSet
  <2>5. GroupOf[color] \in ColorGroup /\ \A c \in Palette : GroupOf[c] \in ColorGroup
    BY ElementOfSeq DEF PaletteInv, Palette, ToSet
  <2>6. \A c \in Palette : areColorGroupsCompatible(GroupOf[c], GroupOf[color])
    BY <1>4, <2>5, BaseStandsForAll DEF colorAvailability, arePaletteColorGroupsCompatible
  <2>7. \A c, d \in Palette' : areColorGroupsCompatible(GroupOf[c], GroupOf[d])
    BY <2>3, <2>5, <2>6, CompatibilityThrough DEF PaletteInv, PaletteFits
  <2>8. ASSUME NEW item \in addedItems, ItemColors[item] # <<>>
        PROVE  areColorGroupsCompatible(GroupOf[color], GroupOf[ItemColors[item][1]])
    <3>1. ItemColors[item] \in Seq(Colors) /\ Len(ItemColors[item]) \in Nat \ {0}
      BY <2>8, EmptySeq DEF PaletteInv
    <3>2. 1 \in DOMAIN ItemColors[item] /\ ItemColors[item][1] \in Colors
      BY <3>1, ElementOfSeq, LenProperties
    <3>3. areColorGroupsCompatible(GroupOf[ItemColors[item][1]], GroupOf[color])
      BY <1>4, <3>2 DEF colorAvailability
    <3> QED
      BY <2>5, <3>2, <3>3, CompatibilityThrough
  <2> QED
    BY <1>2, <2>1, <2>3, <2>4, <2>7, <2>8 DEF PaletteInv, PaletteFits
<1> QED
  BY <1>3, <1>4 DEF toggleColor, ChangeDesign

\* Steps 1 and 2 and the creation leave the design alone or start again.
LEMMA UserStepFits ==
    ASSUME PaletteInv, UserStep
    PROVE  PaletteInv'
<1>1. ASSUME NEW type \in GarderTypes, selectType(type)
      PROVE  PaletteInv'
  BY <1>1, StartFits DEF selectType, StartAt, PaletteInv, PaletteFits, Palette, ToSet
<1>2. CASE UNCHANGED <<selectedColorIds, addedItems>>
  BY <1>2 DEF PaletteInv, PaletteFits, Palette, ToSet
<1>3. ASSUME NEW item \in Items, addItem(item)
      PROVE  PaletteInv'
  BY <1>3, AddItemFits
<1>4. ASSUME NEW item \in Items, removeItem(item)
      PROVE  PaletteInv'
  BY <1>4 DEF removeItem, ChangeDesign, PaletteInv, PaletteFits, Palette, ToSet
<1>5. ASSUME NEW color \in Colors, toggleColor(color)
      PROVE  PaletteInv'
  BY <1>5, ToggleColorFits
<1> QED
  BY <1>1, <1>2, <1>3, <1>4, <1>5
     DEF UserStep, goToStep, toggleCategory, adjustCategoryCount, addCustomCategory,
         ChangeCategories, createCapsule

\* In any order of selecting and deselecting colours and adding and removing items, of going back,
\* leaving and returning, the palette and the items' dominant colours go together pairwise.
THEOREM PaletteAlwaysFits == Spec => []PaletteFits
<1>1. Init => PaletteInv
  BY DEF Init, Fresh, PaletteInv, PaletteFits, Palette, ToSet
<1>2. PaletteInv /\ [Next]_vars => PaletteInv'
  <2> SUFFICES ASSUME PaletteInv, [Next]_vars
               PROVE  PaletteInv'
    OBVIOUS
  <2>1. CASE UNCHANGED <<selectedColorIds, addedItems>>
    BY <2>1 DEF PaletteInv, PaletteFits, Palette, ToSet
  <2>2. CASE selectedColorIds' = <<>> /\ addedItems' = {}
    BY <2>2 DEF PaletteInv, PaletteFits, Palette, ToSet
  <2>3. CASE Journey
    BY <2>3, UserStepFits DEF Journey
  <2>4. CASE GoElsewhere
    BY <2>2, <2>4 DEF GoElsewhere, CloseJourney, OpenFresh, StartAt
  <2>5. CASE GoToJourney
    BY <2>2, <2>5 DEF GoToJourney, OpenFresh, OpenFromSearch, buildInitialSearchHandoffSetup, StartAt
  <2>6. CASE Arrive
    BY <2>1, <2>2, <2>6 DEF Arrive, CloseJourney, OpenFresh, StartAt, journeyVars, journey
  <2>7. CASE GoToResult \/ Created \/ StrayEnds \/ Edit
    BY <2>1, <2>7 DEF GoToResult, Created, TimerEnds, StrayEnds, Edit, journeyVars, journey
  <2> QED
    BY <2>1, <2>3, <2>4, <2>5, <2>6, <2>7 DEF Next, vars, journeyVars, journey
<1>3. PaletteInv => PaletteFits
  BY DEF PaletteInv
<1> QED
  BY <1>1, <1>2, <1>3, PTL DEF Spec

-----------------------------------------------------------------------------
(* The capsule page *)

\* What the page was opened with is finite, with identifiers of its own, and counted; the list never
\* leaves it.
ResultInv ==
    /\ Listed(snapshot.items \cup snapshot.available)
    /\ items \subseteq snapshot.items \cup snapshot.available
    /\ snapshot.outfitCount = Cardinality(countedOutfits(snapshot.items))

\* A part of such a list is one.
LEMMA PartIsListed ==
    ASSUME NEW list, Listed(list), NEW part, part \subseteq list
    PROVE  Listed(part)
  BY FS_Subset DEF Listed

\* A page that is not open shows nothing and counts nothing.
LEMMA NothingIsCounted ==
    /\ Listed(NoSnapshot.items \cup NoSnapshot.available)
    /\ NoSnapshot.outfitCount = Cardinality(countedOutfits(NoSnapshot.items))
<1>1. countedOutfits({}) = {}
  BY DEF countedOutfits, PreviewBaseLooks, buildValidBaseLooks, eligibleProductivityItems, itemsByRole
<1>2. {} \cup {} = {}
  OBVIOUS
<1> QED
  BY <1>1, <1>2, FS_EmptySet DEF NoSnapshot, Listed

\* A page opens on a capsule with the count that was stored for it.
LEMMA OpenedIsCounted ==
    ASSUME NEW c \in Capsules, OpenResult(c)
    PROVE  ResultInv'
<1>1. Listed(c.items \cup c.available)
  BY CapsulesAssumption, FS_Union DEF Listed
<1>2. /\ snapshot'.items = c.items /\ snapshot'.available = c.available \ c.items
      /\ snapshot'.outfitCount = Cardinality(countedOutfits(c.items))
      /\ items' = c.items
  BY DEF OpenResult, buildCapsuleResultSnapshot, storedOutfitCount,
         calculatePreviewOutfitProductivity, calculateOutfitProductivity
<1>3. c.items \cup (c.available \ c.items) = c.items \cup c.available
  OBVIOUS
<1>4. Listed(snapshot'.items \cup snapshot'.available)
  BY <1>1, <1>2, <1>3
<1> QED
  BY <1>2, <1>4 DEF ResultInv, Listed

\* An edit takes an item away or one of the candidates in, and leaves the snapshot alone.
LEMMA EditStaysInside ==
    ASSUME ResultInv, EditStep
    PROVE  ResultInv'
<1>1. snapshot' = snapshot /\ items' \subseteq items \cup candidates
  BY DEF EditStep, openPicker, AskRemove, Cancel, ShowDialog, confirmRemove, selectCandidate
<1> QED
  BY <1>1 DEF ResultInv, candidates, Listed

\* In every state the page shows a part of what it was opened with.
LEMMA ResultInvHolds ==
    /\ Init => ResultInv
    /\ ResultInv /\ [Next]_vars => ResultInv'
<1>1. Init => ResultInv
  BY NothingIsCounted DEF Init, Closed, ResultInv
<1>2. ResultInv /\ [Next]_vars => ResultInv'
  <2> SUFFICES ASSUME ResultInv, [Next]_vars
               PROVE  ResultInv'
    OBVIOUS
  <2>1. CASE UNCHANGED result
    BY <2>1 DEF ResultInv, result, Listed
  <2>2. CASE Close
    BY <2>2, NothingIsCounted DEF Close, ResultInv, Listed
  <2>3. CASE \E c \in Capsules : OpenResult(c)
    BY <2>3, OpenedIsCounted
  <2>4. CASE Edit
    BY <2>4, EditStaysInside DEF Edit
  <2>5. CASE GoElsewhere
    BY <2>2, <2>5 DEF GoElsewhere
  <2>6. CASE GoToResult
    BY <2>3, <2>6 DEF GoToResult
  <2>7. CASE Arrive
    BY <2>1, <2>3, <2>7 DEF Arrive
  <2> QED
    BY <2>1, <2>4, <2>5, <2>6, <2>7
       DEF Next, vars, GoToJourney, Journey, Created, StrayEnds
<1> QED
  BY <1>1, <1>2

\* The number shown for any list is the number of its counted outfits, stored or not.
LEMMA ShownIsCounted ==
    ASSUME ResultInv, NEW list
    PROVE  Productivity(list).outfitCount = Cardinality(countedOutfits(list))
  BY DEF ResultInv, Productivity, haveSameItemIds,
         calculateOutfitProductivity, calculatePreviewOutfitProductivity

\* After any edits of any capsule, the number the page shows is the number of cards it shows.
THEOREM ShownCountAlwaysCards == Spec => []ShownCountIsCards
<1>1. ResultInv => ShownCountIsCards
  BY PartIsListed, ShownIsCounted, CardsAreCounted DEF ResultInv, Listed, ShownCountIsCards
<1> QED
  BY <1>1, ResultInvHolds, PTL DEF Spec

\* After any edits of any capsule, no two cards of a base look have the same slots and colours, and
\* with fewer than three of them none is left out.
THEOREM NeverTwinCards == Spec => []NoTwinCards
<1>1. ResultInv => NoTwinCards
  <2> DEFINE looks(variations) == {accessoryVariationKey(v) : v \in variations}
             found(p) == Visit(p.items, itemsByRole(items, "accessory"))
  <2> SUFFICES ASSUME ResultInv, NEW p \in PreviewBaseLooks(items)
               PROVE  /\ Cardinality(looks(p.variations)) = Cardinality(p.variations)
                      /\ Cardinality(p.variations) <= A_max
                      /\ Cardinality(p.variations) < A_max => looks(found(p)) = looks(p.variations)
    BY DEF NoTwinCards
  <2>1. Listed(items)
    BY PartIsListed DEF ResultInv
  <2>2. p.variations = selectAccessoryVariations(p.items, Accessories(items))
    BY VariationsOfList DEF PreviewBaseLooks
  <2> DEFINE chosen == selectAccessoryVariations(p.items, Accessories(items))
  <2>3. found(p) = Visit(p.items, Accessories(items))
    BY DEF Accessories
  <2>4. /\ Cardinality(looks(chosen)) = Cardinality(chosen)
        /\ Cardinality(chosen) \in 0..3
        /\ Cardinality(chosen) < 3 => looks(Visit(p.items, Accessories(items))) = looks(chosen)
    BY <2>1, VariationsTellApart
  <2> HIDE DEF looks, found, chosen
  <2> QED
    BY <2>2, <2>3, <2>4 DEF A_max, chosen
<1> QED
  BY <1>1, ResultInvHolds, PTL DEF Spec

\* Over the guest's part of any list the two evaluators give one number, and the guest without looks
\* is told why.
THEOREM EvaluatorsAlwaysAgree == Spec => []EvaluatorsAgree
<1>1. ResultInv => EvaluatorsAgree
  <2> SUFFICES ASSUME ResultInv
               PROVE  EvaluatorsAgree
    OBVIOUS
  <2>1. Listed(items)
    BY PartIsListed DEF ResultInv
  <2> DEFINE guest == GuestItems(items)
  <2>2. /\ evaluate(guest).count = calculatePreviewOutfitProductivity(guest).outfitCount
        /\ evaluate(guest).count \in Nat
        /\ evaluate(guest).count = 0 <=> baseLooks(guest) = {}
    BY <2>1, GuestCount DEF calculatePreviewOutfitProductivity, calculateOutfitProductivity
  <2>3. /\ baseLooks(guest) = {} => missingRoles(guest) # {} \/ evaluate(guest).conflicts # {}
        /\ baseLooks(guest) # {} => missingRoles(guest) = {}
    BY <2>1, GuestIsTold
  <2> HIDE DEF guest
  <2> QED
    BY <2>2, <2>3 DEF EvaluatorsAgree, guest
<1> QED
  BY <1>1, ResultInvHolds, PTL DEF Spec

\* In any state of the page of any capsule, an item that is added takes no look, no variation and no
\* layer away.
THEOREM AddingNeverLoses == Spec => AddingNeverLosesALook
<1>1. ResultInv /\ [Next]_vars => [page = "capsule-result" /\ page' = page => AddingTakesNothing]_vars
  <2> SUFFICES ASSUME ResultInv, ResultInv', items \subseteq items', snapshot' = snapshot
               PROVE  TakesNothing(items, items')
    BY ResultInvHolds DEF AddingTakesNothing
  <2> DEFINE before == items
             after == items'
  <2>1. Listed(before) /\ Listed(after) /\ before \subseteq after
    BY PartIsListed DEF ResultInv
  <2>2. /\ Productivity(before).outfitCount = Cardinality(countedOutfits(before))
        /\ Productivity(after).outfitCount = Cardinality(countedOutfits(after))
    BY ShownIsCounted
  <2>3. /\ buildValidBaseLooks(before) \subseteq buildValidBaseLooks(after)
        /\ \A look : Cardinality(VariationsOf(look, before)) <= Cardinality(VariationsOf(look, after))
        /\ Cardinality(countedOutfits(before)) <= Cardinality(countedOutfits(after))
    BY <2>1, LooksGrow, VariationsGrow, CountGrows
  <2>4. \A role : coveredLookCount(buildValidBaseLooks(before), itemsByRole(before, role))
                      <= coveredLookCount(buildValidBaseLooks(after), itemsByRole(after, role))
    BY <2>1, CoverageGrows DEF Listed
  <2> HIDE DEF before, after
  <2>5. TakesNothing(before, after)
    BY <2>2, <2>3, <2>4 DEF TakesNothing, calculateLayeringCoverage
  <2> QED
    BY <2>5 DEF before, after
<1> QED
  BY <1>1, ResultInvHolds, PTL DEF Spec, AddingNeverLosesALook
-----------------------------------------------------------------------------
(* The types of both pages *)

\* An item that a dialog is about is in the list, and no page runs more timers than the bound.
PagesInv == TypeOK /\ strays + timers <= MaxTimers /\ ResultInv

\* A journey that starts, at any step, has its types.
LEMMA StartedTypeOK ==
    ASSUME NEW s \in 1..3, NEW type \in GarderTypes \cup {None}, NEW categories,
           StartAt(s, type, categories), timers' \in 0..MaxTimers
    PROVE  JourneyTypeOK'
<1>1. isCreating' \in BOOLEAN /\ created' \in BOOLEAN
  BY Zenon DEF StartAt
<1>2. step' \in 1..3 /\ selectedType' \in GarderTypes \cup {None} /\ addedItems' \subseteq Items
  BY DEF StartAt
<1>3. selectedColorIds' \in Seq(Colors)
  BY EmptySeq DEF StartAt
<1> QED
  BY <1>1, <1>2, <1>3, Zenon DEF JourneyTypeOK

\* What the user does in the journey keeps its types.
LEMMA UserStepTypeOK ==
    ASSUME JourneyTypeOK, UserStep
    PROVE  JourneyTypeOK'
<1> USE DEF JourneyTypeOK
<1>1. ASSUME NEW type \in GarderTypes, selectType(type)
      PROVE  JourneyTypeOK'
  BY <1>1, StartedTypeOK DEF selectType
<1>2. ASSUME NEW next \in 1..3, goToStep(next)
      PROVE  JourneyTypeOK'
  BY <1>2 DEF goToStep
<1>3. ASSUME NEW new, ChangeCategories(new)
      PROVE  JourneyTypeOK'
  BY <1>3 DEF ChangeCategories
<1>4. ASSUME NEW item \in Items, addItem(item) \/ removeItem(item)
      PROVE  JourneyTypeOK'
  BY <1>4 DEF addItem, removeItem, ChangeDesign
<1>5. ASSUME NEW color \in Colors, toggleColor(color)
      PROVE  JourneyTypeOK'
  <2>1. ASSUME NEW i \in DOMAIN selectedColorIds,
               ChangeDesign(addedItems, RemoveAt(selectedColorIds, i))
        PROVE  JourneyTypeOK'
    <3>1. i \in 1..Len(selectedColorIds)
      OBVIOUS
    <3>2. RemoveAt(selectedColorIds, i) \in Seq(Colors)
      BY <3>1, RemoveAtProperties
    <3> QED
      BY <2>1, <3>2 DEF ChangeDesign
  <2>2. ASSUME ChangeDesign(addedItems, Append(selectedColorIds, color))
        PROVE  JourneyTypeOK'
    BY <2>2 DEF ChangeDesign
  <2> QED
    BY <1>5, <2>1, <2>2 DEF toggleColor
<1>6. ASSUME createCapsule
      PROVE  JourneyTypeOK'
  <2>1. isCreating' \in BOOLEAN /\ created' \in BOOLEAN
    BY <1>6, Zenon DEF createCapsule
  <2>2. timers' \in 0..MaxTimers
    BY <1>6, BoundsAssumption DEF createCapsule
  <2>3. UNCHANGED <<step, selectedType, addedItems, selectedColorIds>>
    BY <1>6 DEF createCapsule
  <2> QED
    BY <2>1, <2>2, <2>3, Zenon
<1>7. CASE \E c \in DOMAIN categoryState :
             toggleCategory(c) \/ \E delta \in {-1, 1} : adjustCategoryCount(c, delta)
  <2>1. \E new : ChangeCategories(new)
    BY <1>7, Zenon DEF toggleCategory, adjustCategoryCount
  <2> QED
    BY <1>3, <2>1, Zenon
<1>8. CASE \E c \in CustomCategories : addCustomCategory(c)
  <2>1. \E new : ChangeCategories(new)
    BY <1>8, Zenon DEF addCustomCategory
  <2> QED
    BY <1>3, <2>1, Zenon
<1> QED
  BY <1>1, <1>2, <1>4, <1>5, <1>6, <1>7, <1>8, Zenon DEF UserStep

\* Closing or opening the journey keeps its types, and moves its timers at most.
LEMMA StartTypeOK ==
    ASSUME JourneyTypeOK, OpenFresh \/ OpenFromSearch, timers' \in 0..MaxTimers
    PROVE  JourneyTypeOK'
  BY CategoriesAssumption, StartedTypeOK
     DEF OpenFresh, OpenFromSearch, buildInitialSearchHandoffSetup

\* A dialog is opened about an item of the list, and the list changes only as it is closed.
LEMMA EditStepTypeOK ==
    ASSUME ResultTypeOK, ResultInv, EditStep
    PROVE  ResultTypeOK'
<1> USE DEF ResultTypeOK
<1>1. CASE openPicker
  BY <1>1 DEF openPicker, ShowDialog
<1>2. CASE AskRemove
  BY <1>2 DEF AskRemove, ShowDialog
<1>3. CASE Cancel \/ confirmRemove
  BY <1>3 DEF Cancel, confirmRemove, ShowDialog, NoDialog
<1>4. ASSUME NEW candidate \in candidates, selectCandidate(candidate)
      PROVE  ResultTypeOK'
  BY <1>4 DEF selectCandidate, candidates, NoDialog, ResultInv, Listed
<1> QED
  BY <1>1, <1>2, <1>3, <1>4 DEF EditStep

\* Every state has the types of both pages; what a dialog removes or replaces is in the list, and
\* timers of earlier visits included no more creations are under way than the bound.
THEOREM PagesTypeOK == Spec => []TypeOK
<1>1. Init => PagesInv
  <2> SUFFICES ASSUME Init
               PROVE  TypeOK /\ strays + timers <= MaxTimers
    BY ResultInvHolds DEF PagesInv
  <2>1. isCreating \in BOOLEAN /\ created \in BOOLEAN /\ moving \in BOOLEAN
    BY Zenon DEF Init, Fresh
  <2>2. /\ step \in 1..3 /\ selectedType \in GarderTypes \cup {None} /\ addedItems \subseteq Items
        /\ selectedColorIds \in Seq(Colors)
    BY DEF Init, Fresh
  <2>3. ResultTypeOK
    BY DEF Init, Closed, NoDialog, ResultTypeOK
  <2>4. timers \in 0..MaxTimers /\ strays \in 0..MaxTimers /\ strays + timers <= MaxTimers
    BY BoundsAssumption DEF Init
  <2>5. page \in {"elsewhere", "guided-journey", "capsule-result"}
    BY DEF Init
  <2> QED
    BY <2>1, <2>2, <2>3, <2>4, <2>5, Zenon DEF TypeOK, JourneyTypeOK
<1>2. PagesInv /\ [Next]_vars => PagesInv'
  <2> SUFFICES ASSUME PagesInv, [Next]_vars
               PROVE  TypeOK' /\ strays' + timers' <= MaxTimers
    BY ResultInvHolds DEF PagesInv
  <2>0. /\ JourneyTypeOK /\ ResultTypeOK /\ ResultInv /\ ResultInv'
        /\ page \in {"elsewhere", "guided-journey", "capsule-result"}
        /\ strays \in 0..MaxTimers /\ timers \in 0..MaxTimers /\ moving \in BOOLEAN
        /\ strays + timers <= MaxTimers /\ MaxTimers \in Nat
    BY ResultInvHolds, BoundsAssumption DEF PagesInv, TypeOK, JourneyTypeOK
  <2>a. UNCHANGED journeyVars => JourneyTypeOK' /\ timers' = timers
    BY <2>0 DEF journeyVars, journey, JourneyTypeOK
  <2>b. UNCHANGED result => ResultTypeOK'
    BY <2>0 DEF result, ResultTypeOK
  <2>c. Close \/ (\E c \in Capsules : OpenResult(c)) => ResultTypeOK'
    BY CapsulesAssumption
       DEF Close, OpenResult, buildCapsuleResultSnapshot, NoDialog, ResultTypeOK
  <2>d. CloseJourney => JourneyTypeOK' /\ strays' + timers' <= MaxTimers /\ strays' \in 0..MaxTimers
    <3> SUFFICES ASSUME CloseJourney
                 PROVE  JourneyTypeOK' /\ strays' + timers' <= MaxTimers /\ strays' \in 0..MaxTimers
      OBVIOUS
    <3>1. timers' = 0 /\ strays' = strays + timers /\ OpenFresh
      BY DEF CloseJourney
    <3> QED
      BY <2>0, <3>1, StartTypeOK
  <2>1. CASE GoElsewhere
    BY <2>0, <2>1, <2>c, <2>d DEF GoElsewhere, TypeOK
  <2>2. CASE GoToJourney
    BY <2>0, <2>2, <2>b, StartTypeOK DEF GoToJourney, TypeOK
  <2>3. CASE GoToResult
    BY <2>0, <2>3, <2>a, <2>c DEF GoToResult, TypeOK
  <2>4. CASE Journey
    BY <2>0, <2>4, <2>b, UserStepTypeOK DEF Journey, TypeOK
  <2>5. CASE Created
    <3>1. isCreating' \in BOOLEAN /\ created' \in BOOLEAN /\ moving' \in BOOLEAN
      BY <2>5, Zenon DEF Created, TimerEnds
    <3>2. timers' = timers - 1 /\ timers' \in 0..MaxTimers
      BY <2>0, <2>5 DEF Created, TimerEnds
    <3>3. UNCHANGED <<step, selectedType, addedItems, selectedColorIds>>
      BY <2>5 DEF Created, TimerEnds
    <3>4. JourneyTypeOK'
      BY <2>0, <3>1, <3>2, <3>3, Zenon DEF JourneyTypeOK
    <3> QED
      BY <2>0, <2>5, <2>b, <3>1, <3>2, <3>4 DEF Created, TypeOK
  <2>6. CASE StrayEnds
    BY <2>0, <2>6, <2>a, <2>b DEF StrayEnds, TypeOK
  <2>7. CASE Arrive
    <3>1. CASE page = "capsule-result"
      BY <2>0, <2>7, <3>1, <2>a, <2>b DEF Arrive, TypeOK
    <3>2. CASE page # "capsule-result"
      BY <2>0, <2>7, <3>2, <2>c, <2>d DEF Arrive, TypeOK
    <3> QED
      BY <3>1, <3>2
  <2>8. CASE Edit
    BY <2>0, <2>8, <2>a, EditStepTypeOK DEF Edit, TypeOK
  <2>9. CASE UNCHANGED vars
    BY <2>0, <2>9, <2>a, <2>b DEF vars, TypeOK
  <2> QED
    BY <2>1, <2>2, <2>3, <2>4, <2>5, <2>6, <2>7, <2>8, <2>9 DEF Next
<1>3. PagesInv => TypeOK
  BY DEF PagesInv
<1> QED
  BY <1>1, <1>2, <1>3, PTL DEF Spec
=============================================================================
