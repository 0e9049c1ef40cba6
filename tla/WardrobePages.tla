--------------------------- MODULE WardrobePages ---------------------------
(***************************************************************************)
(* One browser tab on the wardrobe pages of app/src/components: my items,  *)
(* favorites, for sale, for repair, uncapsulated.  The server hands a page *)
(* its list and the counters of the navigation; from then on the page      *)
(* keeps both by itself.  A change of an imported guest item is a call the *)
(* page waits for while the user goes on clicking; a change of any other   *)
(* item is local to the page and gone with it.  Other tabs, and calls the  *)
(* tab no longer waits for, change the same rows.                          *)
(***************************************************************************)
EXTENDS Integers, FiniteSets, Functions

CONSTANTS
    Items,
    Guest,       \* the imported guest items among them
    Wardrobes,   \* the wardrobes a user may have when the tab is opened: items to entries
    HasCapsule,  \* the user has an active capsule
    Requests,    \* bounds the calls a tab waits for at one time
    None

Pages == {"my-items", "favorites", "for-sale", "for-repair", "uncapsulated"}
ItemStatus == {"active", "uncapsulated", "for_sale", "for_repair"}
Entries == [status : ItemStatus, favorite : BOOLEAN, inCapsule : BOOLEAN]

\* Only an active item is in the capsule; a guest item never is (guest-wardrobe.ts projects none).
ASSUME GuestAssumption == Guest \subseteq Items
ASSUME WardrobesAssumption == \A w \in Wardrobes :
    /\ DOMAIN w \subseteq Items /\ IsFiniteSet(DOMAIN w)
    /\ \A i \in DOMAIN w : /\ w[i] \in Entries
                           /\ w[i].inCapsule => w[i].status = "active" /\ i \notin Guest

Patches == [field : {"status"}, value : ItemStatus] \cup [field : {"favorite"}, value : BOOLEAN]
Mutations == [item : Guest, entry : Entries, patch : Patches, stored : BOOLEAN]

ASSUME NoneAssumption == None \notin Mutations \cup Items

VARIABLES
    row,       \* what the server has
    page,      \* the page the tab shows
    items,     \* its list
    nav,       \* its counters
    selected,  \* the item its detail panel shows
    calls,     \* updateGuestItemAction calls it waits for: the item as clicked, the patch
    whole,     \* history: every entry of the wardrobe, listed or not, as the user left it
    disturbed  \* history: guest items changed since by others, or by an answer that was lost

vars == <<row, page, items, nav, selected, calls, whole, disturbed>>

-----------------------------------------------------------------------------
(* Counters and lists *)

isWardrobeStatisticItem(status) == status \notin {"for_sale", "for_repair"}

CountOf(entries, Test(_)) == Cardinality({i \in DOMAIN entries : Test(entries[i])})

buildCounts(entries) ==
    [myItems      |-> CountOf(entries, LAMBDA e : isWardrobeStatisticItem(e.status)),
     uncapsulated |-> CountOf(entries, LAMBDA e : e.status = "uncapsulated"),
     favorites    |-> CountOf(entries, LAMBDA e : e.favorite),
     forSale      |-> CountOf(entries, LAMBDA e : e.status = "for_sale"),
     forRepair    |-> CountOf(entries, LAMBDA e : e.status = "for_repair")]

Dec(n) == IF n = 0 THEN 0 ELSE n - 1

ForStatusChange(count, previous, next) ==
    IF isWardrobeStatisticItem(previous) = isWardrobeStatisticItem(next) THEN count
    ELSE IF isWardrobeStatisticItem(next) THEN count + 1
    ELSE Dec(count)

ForRemoval(count, e) == IF isWardrobeStatisticItem(e.status) THEN Dec(count) ELSE count

isUncapsulatedItem(e) == e.status = "uncapsulated" /\ ~e.inCapsule

Filtered(entries, Test(_)) == Restrict(entries, {i \in DOMAIN entries : Test(entries[i])})

Without(entries, i) == Restrict(entries, DOMAIN entries \ {i})

Length(list) == Cardinality(DOMAIN list)

\* What the server renders a page from: its list, and the counters of the whole wardrobe with one
\* of them replaced by the length of the list.
buildMyItemsSnapshot(entries) == [items |-> entries, nav |-> buildCounts(entries)]

buildFavoritesSnapshot(entries) ==
    LET list == Filtered(entries, LAMBDA e : e.favorite)
    IN [items |-> list, nav |-> [buildCounts(entries) EXCEPT !.favorites = Length(list)]]

buildForSaleSnapshot(entries) ==
    LET list == Filtered(entries, LAMBDA e : e.status = "for_sale")
    IN [items |-> list, nav |-> [buildCounts(entries) EXCEPT !.forSale = Length(list)]]

buildForRepairSnapshot(entries) ==
    LET list == Filtered(entries, LAMBDA e : e.status = "for_repair")
    IN [items |-> list, nav |-> [buildCounts(entries) EXCEPT !.forRepair = Length(list)]]

buildUncapsulatedSnapshot(entries) ==
    LET list == Filtered(entries, isUncapsulatedItem)
    IN [items |-> list, nav |-> [buildCounts(entries) EXCEPT !.uncapsulated = Length(list)]]

Snapshot(p, entries) ==
    CASE p = "my-items" -> buildMyItemsSnapshot(entries)
      [] p = "favorites" -> buildFavoritesSnapshot(entries)
      [] p = "for-sale" -> buildForSaleSnapshot(entries)
      [] p = "for-repair" -> buildForRepairSnapshot(entries)
      [] p = "uncapsulated" -> buildUncapsulatedSnapshot(entries)

\* What the navigation shows.
Shown ==
    CASE page = "my-items" -> buildCounts(items)
      [] page = "favorites" -> [nav EXCEPT !.favorites = Length(items)]
      [] OTHER -> nav

-----------------------------------------------------------------------------
(* Opening a page, and its panel *)

Init ==
    /\ row \in Wardrobes
    /\ page = "my-items"
    /\ items = buildMyItemsSnapshot(row).items
    /\ nav = buildMyItemsSnapshot(row).nav
    /\ selected = None
    /\ calls = [r \in Requests |-> None]
    /\ whole = row
    /\ disturbed = {}

\* A page is opened or reloaded: what was local to the old one is gone, and whatever it still
\* waited for is nobody's (Elsewhere may carry it out).
Open(p) ==
    /\ page' = p
    /\ items' = Snapshot(p, row).items
    /\ nav' = Snapshot(p, row).nav
    /\ selected' = None
    /\ calls' = [r \in Requests |-> None]
    /\ whole' = row
    /\ disturbed' = {}
    /\ UNCHANGED row

\* Cards of my items are those of the statistics; the other pages show their whole list.
HasCard(i) == page = "my-items" => isWardrobeStatisticItem(items[i].status)

openItem(i) ==
    /\ i \in DOMAIN items /\ HasCard(i) /\ selected # i
    /\ selected' = i
    /\ UNCHANGED <<row, page, items, nav, calls, whole, disturbed>>

closeDetail ==
    /\ selected # None
    /\ selected' = None
    /\ UNCHANGED <<row, page, items, nav, calls, whole, disturbed>>

-----------------------------------------------------------------------------
(* What each page does with a change of item e (as it was clicked) once it is persisted *)

SetStatus(e, s) == [e EXCEPT !.status = s, !.inCapsule = FALSE]

MyItemsToggleFavorite(i) ==
    /\ items' = IF i \in DOMAIN items THEN [items EXCEPT ![i].favorite = ~@] ELSE items
    /\ UNCHANGED <<nav, selected>>

MyItemsMoveSelectedItem(i, s) ==
    /\ items' = IF i \in DOMAIN items THEN [items EXCEPT ![i] = SetStatus(@, s)] ELSE items
    /\ selected' = None
    /\ UNCHANGED nav

\* Mutant: the item stays in the list.
FavoritesForgetFilter(i) ==
    /\ items' = [items EXCEPT ![i].favorite = FALSE]
    /\ nav' = [nav EXCEPT !.favorites = Dec(@)]
    /\ selected' = None

FavoritesRemoveFavorite(i) ==
    /\ items' = Without(items, i)
    /\ nav' = [nav EXCEPT !.favorites = Dec(@)]
    /\ selected' = None

adjustStatusNavigation(previous, next) ==
    IF previous = next THEN nav
    ELSE [nav EXCEPT
             !.myItems = ForStatusChange(@, previous, next),
             !.uncapsulated = IF previous = "uncapsulated" THEN Dec(@) ELSE @,
             !.forSale = IF next = "for_sale" THEN @ + 1
                         ELSE IF previous = "for_sale" THEN Dec(@) ELSE @,
             !.forRepair = IF next = "for_repair" THEN @ + 1
                           ELSE IF previous = "for_repair" THEN Dec(@) ELSE @]

FavoritesMoveSelectedItem(i, e, s) ==
    /\ items' = IF i \in DOMAIN items THEN [items EXCEPT ![i] = SetStatus(@, s)] ELSE items
    /\ nav' = adjustStatusNavigation(e.status, s)
    /\ selected' = None

\* The heart on the other three pages; the new value was computed when it was clicked.
ToggleFavorite(i, next) ==
    /\ items' = IF i \in DOMAIN items THEN [items EXCEPT ![i].favorite = next] ELSE items
    /\ nav' = [nav EXCEPT !.favorites = IF next THEN @ + 1 ELSE Dec(@)]
    /\ UNCHANGED selected

ForSaleReturnToMyItems(i, e) ==
    /\ items' = Without(items, i)
    /\ nav' = [nav EXCEPT !.myItems = ForStatusChange(@, e.status, "uncapsulated"),
                          !.forSale = Dec(@), !.uncapsulated = @ + 1]
    /\ selected' = None

ForRepairMarkFixed(i, e) ==
    /\ items' = Without(items, i)
    /\ nav' = [nav EXCEPT !.myItems = ForStatusChange(@, e.status, "uncapsulated"),
                          !.uncapsulated = @ + 1, !.forRepair = Dec(@)]
    /\ selected' = None

\* completeDecision, for a sale, a repair or the capsule; the caller closes the panel.
UncapsulatedCompleteDecision(i, e, s) ==
    /\ items' = Without(items, i)
    /\ nav' = [nav EXCEPT !.myItems = ForStatusChange(@, e.status, s),
                          !.uncapsulated = Dec(@),
                          !.forSale = IF s = "for_sale" THEN @ + 1 ELSE @,
                          !.forRepair = IF s = "for_repair" THEN @ + 1 ELSE @]
    /\ selected' = None

Apply(i, e, patch) ==
    IF patch.field = "favorite"
    THEN CASE page = "my-items" -> MyItemsToggleFavorite(i)
           [] page = "favorites" -> FavoritesRemoveFavorite(i)
           [] OTHER -> ToggleFavorite(i, patch.value)
    ELSE CASE page = "my-items" -> MyItemsMoveSelectedItem(i, patch.value)
           [] page = "favorites" -> FavoritesMoveSelectedItem(i, e, patch.value)
           [] page = "for-sale" -> ForSaleReturnToMyItems(i, e)
           [] page = "for-repair" -> ForRepairMarkFixed(i, e)
           [] page = "uncapsulated" -> UncapsulatedCompleteDecision(i, e, patch.value)

\* What the user asked for, on the wardrobe as a whole.
Promised(e, patch) ==
    IF patch.field = "favorite" THEN [e EXCEPT !.favorite = patch.value]
    ELSE SetStatus(e, patch.value)

Settle(i, e, patch) ==
    /\ Apply(i, e, patch)
    /\ whole' = [whole EXCEPT ![i] = Promised(@, patch)]

-----------------------------------------------------------------------------
(* Buttons *)

MovesOn(p) == IF p \in {"for-sale", "for-repair"} THEN {"uncapsulated"}
              ELSE {"for_sale", "for_repair"}

Offers(i, patch) ==
    /\ i \in DOMAIN items
    /\ \/ patch = [field |-> "favorite", value |-> ~items[i].favorite] /\ HasCard(i)
       \/ patch.field = "status" /\ patch.value \in MovesOn(page) /\ selected = i

ClickLocal(i, patch) ==
    /\ Offers(i, patch) /\ i \notin Guest
    /\ Settle(i, items[i], patch)
    /\ UNCHANGED <<row, page, calls, disturbed>>

\* Mutant: persistGuestItem does not look whether a call for the item is under way.
NeverPending(i) == FALSE

Pending(i) == \E r \in Requests : calls[r] # None /\ calls[r].item = i

ClickGuest(r, i, patch) ==
    /\ Offers(i, patch) /\ i \in Guest
    /\ calls[r] = None /\ ~Pending(i)
    /\ calls' = [calls EXCEPT ![r] =
                    [item |-> i, entry |-> items[i], patch |-> patch, stored |-> FALSE]]
    /\ UNCHANGED <<row, page, items, nav, selected, whole, disturbed>>

\* The panel of a guest item is read-only.
Deletable(i) == selected = i /\ i \notin Guest

\* removeItemFromNavigation; each of the other pages knows which counters its own items are in.
FavoritesDeleted(e) ==
    [nav EXCEPT !.myItems = ForRemoval(@, e),
                !.favorites = IF e.favorite THEN Dec(@) ELSE @,
                !.uncapsulated = IF e.status = "uncapsulated" THEN Dec(@) ELSE @,
                !.forSale = IF e.status = "for_sale" THEN Dec(@) ELSE @,
                !.forRepair = IF e.status = "for_repair" THEN Dec(@) ELSE @]

ForSaleDeleted(e) ==
    [nav EXCEPT !.myItems = ForRemoval(@, e), !.forSale = Dec(@),
                !.favorites = IF e.favorite THEN Dec(@) ELSE @]

ForRepairDeleted(e) ==
    [nav EXCEPT !.myItems = ForRemoval(@, e), !.forRepair = Dec(@),
                !.favorites = IF e.favorite THEN Dec(@) ELSE @]

UncapsulatedDeleted(e) ==
    [nav EXCEPT !.myItems = Dec(@), !.uncapsulated = Dec(@),
                !.favorites = IF e.favorite THEN Dec(@) ELSE @]

DeletedNav(e) ==
    CASE page = "my-items" -> nav
      [] page = "favorites" -> FavoritesDeleted(e)
      [] page = "for-sale" -> ForSaleDeleted(e)
      [] page = "for-repair" -> ForRepairDeleted(e)
      [] page = "uncapsulated" -> UncapsulatedDeleted(e)

deleteItem(i) ==
    /\ i \in DOMAIN items /\ Deletable(i)
    /\ items' = Without(items, i)
    /\ nav' = DeletedNav(items[i])
    /\ selected' = None
    /\ whole' = Without(whole, i)
    /\ UNCHANGED <<row, page, calls, disturbed>>

FavoritesAddToCapsule(i, e) ==
    /\ page = "favorites" /\ selected = i
    /\ items' = [items EXCEPT ![i].status = "active", ![i].inCapsule = TRUE]
    /\ nav' = adjustStatusNavigation(e.status, "active")
    /\ selected' = None

ForSaleAddToCapsule(i, e) ==
    /\ page = "for-sale" /\ selected = i
    /\ items' = Without(items, i)
    /\ nav' = [nav EXCEPT !.myItems = ForStatusChange(@, e.status, "active"), !.forSale = Dec(@)]
    /\ selected' = None

\* The dialog of requestAddToCapsule is confirmed, whatever the panel shows by then.
UncapsulatedConfirmAddToCapsule(i, e) ==
    /\ page = "uncapsulated"
    /\ UncapsulatedCompleteDecision(i, e, "active")

\* Only items of the user's own can be added to the active capsule.
addToCapsule(i) ==
    /\ HasCapsule /\ i \in DOMAIN items /\ i \notin Guest /\ ~items[i].inCapsule
    /\ \/ FavoritesAddToCapsule(i, items[i])
       \/ ForSaleAddToCapsule(i, items[i])
       \/ UncapsulatedConfirmAddToCapsule(i, items[i])
    /\ whole' = [whole EXCEPT ![i] = [@ EXCEPT !.status = "active", !.inCapsule = TRUE]]
    /\ UNCHANGED <<row, page, calls, disturbed>>

-----------------------------------------------------------------------------
(* updateGuestItemAction *)

Store(r) ==
    /\ calls[r] # None /\ ~calls[r].stored
    /\ row' = [row EXCEPT ![calls[r].item][calls[r].patch.field] = calls[r].patch.value]
    /\ calls' = [calls EXCEPT ![r].stored = TRUE]
    /\ UNCHANGED <<page, items, nav, selected, whole, disturbed>>

Succeed(r) ==
    /\ calls[r] # None /\ calls[r].stored
    /\ Settle(calls[r].item, calls[r].entry, calls[r].patch)
    /\ calls' = [calls EXCEPT ![r] = None]
    /\ UNCHANGED <<row, page, disturbed>>

\* Mutant: the page is changed although the answer is an error.
RefuseAndApply(r) ==
    /\ calls[r] # None /\ ~calls[r].stored
    /\ Settle(calls[r].item, calls[r].entry, calls[r].patch)
    /\ calls' = [calls EXCEPT ![r] = None]
    /\ UNCHANGED <<row, page, disturbed>>

\* { ok: false } with nothing stored: no session, not the owner, the API refused.
Refuse(r) ==
    /\ calls[r] # None /\ ~calls[r].stored
    /\ calls' = [calls EXCEPT ![r] = None]
    /\ UNCHANGED <<row, page, items, nav, selected, whole, disturbed>>

\* An error of which the page cannot know whether the patch was, or will be, stored.
Lose(r) ==
    /\ calls[r] # None
    /\ disturbed' = disturbed \cup {calls[r].item}
    /\ calls' = [calls EXCEPT ![r] = None]
    /\ UNCHANGED <<row, page, items, nav, selected, whole>>

\* Another tab's call, or one that is nobody's any more, is stored.
Elsewhere(i, patch) ==
    /\ i \in Guest \cap DOMAIN row
    /\ \/ patch.field = "favorite"
       \/ patch.field = "status" /\ \E p \in Pages : patch.value \in MovesOn(p)
    /\ row' = [row EXCEPT ![i][patch.field] = patch.value]
    /\ row' # row
    /\ disturbed' = disturbed \cup {i}
    /\ UNCHANGED <<page, items, nav, selected, calls, whole>>

Next ==
    \/ \E p \in Pages : Open(p)
    \/ \E i \in Items : openItem(i) \/ deleteItem(i) \/ addToCapsule(i)
    \/ closeDetail
    \/ \E i \in Items, patch \in Patches :
          ClickLocal(i, patch) \/ Elsewhere(i, patch) \/ \E r \in Requests : ClickGuest(r, i, patch)
    \/ \E r \in Requests : Store(r) \/ Succeed(r) \/ Refuse(r) \/ Lose(r)

Spec == Init /\ [][Next]_vars

-----------------------------------------------------------------------------
(* Properties *)

\* The counters in the navigation are those of the wardrobe as the user left it, although every
\* page keeps them by adding and subtracting, for clicks settled in any order, and each page sees
\* only its own part of the wardrobe.
CountersAgree == Shown = buildCounts(whole)

\* A page lists exactly the items it is about, in the state the user left them in: an item that is
\* moved away leaves the list it was in and no other does.
ListsHoldTheirOwn == items = Snapshot(page, whole).items

\* What the page shows of a guest item is what the server has, unless another tab changed it or an
\* answer was lost: a refused change leaves no trace, a local deletion cannot hide a saved item.
UndisturbedIsStored ==
    \A i \in (Guest \cap DOMAIN row) \ disturbed :
       ~Pending(i) => i \in DOMAIN whole /\ whole[i] = row[i]

=============================================================================
