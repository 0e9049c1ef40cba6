--------------------------- MODULE CapsuleResult ---------------------------
(***************************************************************************)
(* The capsule page (app/src/components/capsule-result): a snapshot of the *)
(* stored capsule and of the items that may be added to it, edited in the  *)
(* page only.  The figures come from the stored count while the list is    *)
(* the stored one and are computed again otherwise.                        *)
(***************************************************************************)
EXTENDS Outfits

CONSTANTS
    Capsules  \* the capsules and wardrobes a user may have: items of the capsule, of the picker, palette

\* An identifier is the item's primary key, and uniqueItems keeps one item of each.
ASSUME CapsulesAssumption == \A c \in Capsules :
    /\ c.items \subseteq ItemRecord /\ c.available \subseteq ItemRecord
    /\ IsFiniteSet(c.items) /\ IsFiniteSet(c.available)
    /\ \A i, j \in c.items \cup c.available : i.id = j.id => i = j
    /\ c.palette \subseteq ColorGroup

VARIABLES
    snapshot, \* what the server handed to the page
    items,    \* the list the user edits
    dialog    \* the open dialog: the removal of an item, the picker to add or to replace one

result == <<snapshot, items, dialog>>

NoDialog == [kind |-> "none"]
NoSnapshot == [items |-> {}, available |-> {}, palette |-> {}, outfitCount |-> 0]

\* The page is not open.
Closed == snapshot = NoSnapshot /\ items = {} /\ dialog = NoDialog

Close == snapshot' = NoSnapshot /\ items' = {} /\ dialog' = NoDialog

\* A capsule is stored with the number of looks its items have (createCapsule of the mock provider).
storedOutfitCount(c) == calculatePreviewOutfitProductivity(c.items).outfitCount

buildCapsuleResultSnapshot(c) ==
    [items |-> c.items, available |-> c.available \ c.items, palette |-> c.palette,
     outfitCount |-> storedOutfitCount(c)]

OpenResult(c) ==
    /\ snapshot' = buildCapsuleResultSnapshot(c)
    /\ items' = snapshot'.items
    /\ dialog' = NoDialog

-----------------------------------------------------------------------------
(* Editing *)

isItemCompatibleWithPalette(item) ==
    item.color # NoColor => \A g \in snapshot.palette : areColorGroupsCompatible(item.group, g)

candidates == (snapshot.items \cup snapshot.available) \ items

ShowDialog(new) == dialog' = new /\ UNCHANGED <<snapshot, items>>

openPicker ==
    /\ dialog = NoDialog
    /\ \/ ShowDialog([kind |-> "add"])
       \/ \E i \in items : ShowDialog([kind |-> "replace", item |-> i])

AskRemove == dialog = NoDialog /\ \E i \in items : ShowDialog([kind |-> "remove", item |-> i])

Cancel == dialog # NoDialog /\ ShowDialog(NoDialog)

confirmRemove ==
    /\ dialog.kind = "remove"
    /\ items' = items \ {dialog.item}
    /\ dialog' = NoDialog
    /\ UNCHANGED snapshot

\* A candidate outside the palette is refused with a notice, and the picker stays.
selectCandidate(candidate) ==
    /\ dialog.kind \in {"add", "replace"}
    /\ isItemCompatibleWithPalette(candidate)
    /\ items' = (IF dialog.kind = "replace" THEN items \ {dialog.item} ELSE items) \cup {candidate}
    /\ dialog' = NoDialog
    /\ UNCHANGED snapshot

EditStep ==
    \/ openPicker \/ AskRemove \/ Cancel \/ confirmRemove
    \/ \E candidate \in candidates : selectCandidate(candidate)

-----------------------------------------------------------------------------
(* What the page shows *)

\* Mutant: lists of one length count as the same.
haveSameNumber(currentItems, persistedItems) == Cardinality(currentItems) = Cardinality(persistedItems)
haveSameItemIds(currentItems, persistedItems) == currentItems = persistedItems

Productivity(current) ==
    IF haveSameItemIds(current, snapshot.items)
    THEN calculateOutfitProductivity(snapshot.outfitCount, current)
    ELSE calculatePreviewOutfitProductivity(current)

-----------------------------------------------------------------------------
ResultTypeOK ==
    /\ items \subseteq ItemRecord
    /\ dialog.kind \in {"none", "add", "replace", "remove"}
    /\ dialog.kind \in {"replace", "remove"} => dialog.item \in items

\* The number of outfits in the header and on the outfits tab is the number of cards of the tab,
\* after any edits, also when they lead back to the stored list and its stored number is shown.
ShownCountIsCards == Productivity(items).outfitCount = Cardinality(buildPreviewOutfitCards(items))

\* The cards of a base look can be told apart by slots and colours, and there are fewer than three
\* with accessories only if every variation that looks different is shown.
NoTwinCards == \A p \in PreviewBaseLooks(items) :
    LET found == Visit(p.items, itemsByRole(items, "accessory"))
        looks(variations) == {accessoryVariationKey(v) : v \in variations}
    IN  /\ Cardinality(looks(p.variations)) = Cardinality(p.variations)
        /\ Cardinality(p.variations) <= A_max
        /\ Cardinality(p.variations) < A_max => looks(found) = looks(p.variations)

\* For the same items the guest is shown as many looks as the capsule page would count, and a guest
\* without looks is told of a missing role or has two items that clash.
EvaluatorsAgree ==
    LET guest == GuestItems(items)
        shown == evaluate(guest)
    IN  /\ shown.count = calculatePreviewOutfitProductivity(guest).outfitCount
        /\ shown.count = 0 => missingRoles(guest) # {} \/ shown.conflicts # {}
        /\ shown.count > 0 => missingRoles(guest) = {}

\* Adding an item takes no look away: every base look is still there, with as many variations and
\* with the layers it had.
TakesNothing(before, after) ==
    LET covered == calculateLayeringCoverage(before)
        coveredAfter == calculateLayeringCoverage(after)
    IN  /\ Productivity(before).outfitCount <= Productivity(after).outfitCount
        /\ covered.midCoveredLookCount <= coveredAfter.midCoveredLookCount
        /\ covered.outerCoveredLookCount <= coveredAfter.outerCoveredLookCount
        /\ \A look \in buildValidBaseLooks(before) :
               /\ look \in buildValidBaseLooks(after)
               /\ Cardinality(VariationsOf(look, before)) <= Cardinality(VariationsOf(look, after))

AddingTakesNothing ==
    items \subseteq items' /\ items # items' /\ snapshot' = snapshot =>
        \A before \in {items}, after \in {items'} : TakesNothing(before, after)
=============================================================================
