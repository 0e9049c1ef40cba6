------------------------------ MODULE Outfits ------------------------------
(***************************************************************************)
(* How outfits are counted, twice: for the capsule page                    *)
(* (app/src/lib/outfit-productivity.ts, outfit-variation-selection.ts) and *)
(* for the guest (app/src/features/guest/outfits.ts).  A look is a valid   *)
(* base, bare or with one of at most three variations of its accessories.  *)
(* Identifiers, slots and colours are numbers in the order of their text,  *)
(* as many as there are;                                                   *)
(* item lists are sets, since only the order of display depends on theirs. *)
(***************************************************************************)
EXTENDS ColorCompatibility, Integers, FiniteSets, FiniteSetsExt

CONSTANTS ColorCount, ItemCount  \* how many colours and items there are

ASSUME CountsAssumption == ColorCount \in Nat /\ ItemCount \in Nat

Slots == 1..6        \* bag, belt, eyewear, headwear, jewelry, neckwear
NoSlot == 0
ColorIds == 1..ColorCount
NoColor == 0         \* an item without colours; its own identifier stands for the colour
ItemIds == 1..ItemCount
A_max == 3           \* variations of one look, and accessories of one variation

Roles == {"core_top", "core_bottom", "core_dress", "core_shoes", "accessory",
          "layering_mid", "layering_outer"}
NoRole == "none"

\* An item as both evaluators see it; the group is that of its first colour.
ItemRecord == [id : ItemIds, role : Roles \cup {NoRole}, slot : Slots \cup {NoSlot},
               color : ColorIds \cup {NoColor}, group : ColorGroup]

-----------------------------------------------------------------------------
(* Base looks *)

colorsAreCompatible(first, second) ==
    \/ NoColor \in {first.color, second.color}
    \/ areColorGroupsCompatible(first.group, second.group)

itemsAreMutuallyCompatible(items) == \A a, b \in items : a # b => colorsAreCompatible(a, b)

itemsByRole(items, role) == {i \in items : i.role = role}

buildValidBaseLooks(items) ==
    LET shoes == itemsByRole(items, "core_shoes")
        separates == {{t, b, s} : t \in itemsByRole(items, "core_top"),
                                  b \in itemsByRole(items, "core_bottom"), s \in shoes}
        dressLooks == {{d, s} : d \in itemsByRole(items, "core_dress"), s \in shoes}
    IN  {look \in separates \cup dressLooks : itemsAreMutuallyCompatible(look)}

-----------------------------------------------------------------------------
(* Accessory variations *)

accessoryColorId(a) == IF a.color = NoColor THEN ColorCount + a.id ELSE a.color

\* The tuple (slot, colour) as a number in the order of the tuples.
Width == ColorCount + ItemCount + 1
Tuple(a) == Width * a.slot + accessoryColorId(a)
SlotOf(tuple) == tuple \div Width

\* What tells one variation of a look from another
accessoryVariationKey(variation) == {Tuple(a) : a \in variation}
canonicalItemIds(variation) == {a.id : a \in variation}

\* The order of the joined texts of two ascending lists, a prefix before the longer one
TextBefore(S, T) ==
    LET differ == (S \ T) \cup (T \ S)
    IN  /\ differ # {}
        /\ LET least == Min(differ)
           IN  IF least \in S THEN \E t \in T : t > least ELSE \A s \in S : s < least

\* Mutant: the list of accessories is left at the first that does not go with the look.
VisitUntilIncompatible(look, accessories) ==
    LET bad == {a.id : a \in {b \in accessories : ~itemsAreMutuallyCompatible(look \cup {b})}}
        seen == {a \in accessories : \A i \in bad : a.id < i}
    IN  UNION {kSubset(k, seen) : k \in 1..A_max}
Visit(look, accessories) ==
    {v \in UNION {kSubset(k, {a \in accessories : a.slot # NoSlot}) : k \in 1..A_max} :
        /\ \A a, b \in v : a # b => a.slot # b.slot
        /\ itemsAreMutuallyCompatible(look \cup v)}

\* Mutant: a twin of a candidate is a candidate too.
RetainEveryVariation(found) == found
\* Of the variations that look the same, the one with the first identifiers.
retainCanonicalVariation(found) ==
    {v \in found : \A w \in found :
        w # v /\ accessoryVariationKey(w) = accessoryVariationKey(v)
            => TextBefore(canonicalItemIds(v), canonicalItemIds(w))}

variationDistance(first, second) ==
    LET S == accessoryVariationKey(first)
        T == accessoryVariationKey(second)
    IN  Cardinality({SlotOf(x) : x \in (S \ T) \cup (T \ S)})

DistanceTo(v, selected) == Min({variationDistance(v, s) : s \in selected})

\* Before(left, right): the most accessories first, afterwards the farthest from those selected.
compareVariationCandidates(left, right, selected) ==
    LET rank(v) == IF selected = {} THEN Cardinality(v) ELSE DistanceTo(v, selected)
    IN  \/ rank(left) > rank(right)
        \/ /\ rank(left) = rank(right)
           /\ TextBefore(accessoryVariationKey(left), accessoryVariationKey(right))

SelectNext(candidates, selected) ==
    LET remaining == candidates \ selected
    IN  selected \cup {v \in remaining : \A w \in remaining \ {v} : compareVariationCandidates(v, w, selected)}

selectAccessoryVariations(look, accessories) ==
    LET candidates == retainCanonicalVariation(Visit(look, accessories))
        first == SelectNext(candidates, {})
        second == SelectNext(candidates, first)
    IN  SelectNext(candidates, second)

-----------------------------------------------------------------------------
(* The figures of the capsule page *)

eligibleProductivityItems(items) == {i \in items : i.role # NoRole}

VariationsOf(look, items) ==
    selectAccessoryVariations(look, itemsByRole(eligibleProductivityItems(items), "accessory"))

coveredLookCount(looks, layers) ==
    Cardinality({look \in looks : \E layer \in layers : itemsAreMutuallyCompatible(look \cup {layer})})

calculateLayeringCoverage(items) ==
    LET looks == buildValidBaseLooks(items)
    IN  [baseLookCount |-> Cardinality(looks),
         midCoveredLookCount |-> coveredLookCount(looks, itemsByRole(items, "layering_mid")),
         outerCoveredLookCount |-> coveredLookCount(looks, itemsByRole(items, "layering_outer"))]

\* The ratio and the coverage in percent are quotients of these.
calculateOutfitProductivity(outfitCount, items) ==
    [outfitCount |-> outfitCount,
     denominator |-> Cardinality({i \in items : i.role \in {"core_top", "core_bottom", "core_dress",
                                                            "core_shoes", "accessory"}}),
     layeringCoverage |-> calculateLayeringCoverage(eligibleProductivityItems(items))]

PreviewBaseLooks(items) ==
    {[items |-> look, variations |-> VariationsOf(look, items)] :
        look \in buildValidBaseLooks(eligibleProductivityItems(items))}

\* Each base look, bare and once per variation.
countedOutfits(items) ==
    UNION {{<<p.items, v>> : v \in {{}} \cup p.variations} : p \in PreviewBaseLooks(items)}

calculatePreviewOutfitProductivity(items) ==
    calculateOutfitProductivity(Cardinality(countedOutfits(items)), items)

\* The cards of the outfits tab: each base look bare, then with its variations.
buildPreviewOutfitCards(items) ==
    UNION {{p.items \cup v : v \in {{}} \cup p.variations} : p \in PreviewBaseLooks(items)}

-----------------------------------------------------------------------------
(* The guest's evaluator, over items whose only accessories are bags *)

Bag == 1
GuestItems(items) ==
    {i \in items : /\ i.color # NoColor
                   /\ \/ i.role \in {"core_top", "core_bottom", "core_dress", "core_shoes"}
                      \/ i.role = "accessory" /\ i.slot = Bag}

compatible(a, b) == areColorGroupsCompatible(a.group, b.group)
allCompatible(items) == \A a, b \in items : a # b => compatible(a, b)

baseLooks(items) ==
    {look \in {{s, t, b} : s \in itemsByRole(items, "core_shoes"), t \in itemsByRole(items, "core_top"),
                          b \in itemsByRole(items, "core_bottom")} : allCompatible(look)}
    \cup {look \in {{d, s} : d \in itemsByRole(items, "core_dress"), s \in itemsByRole(items, "core_shoes")} :
               allCompatible(look)}

\* Mutant: bags of one colour count as many times as there are bags.
EveryFittingBag(look, bags) == {bag \in bags : \A c \in look : compatible(c, bag)}
\* The bags that go with a look, the first of each colour in the order of picking.
FittingBags(look, bags) ==
    LET fits(bag) == \A c \in look : compatible(c, bag)
    IN  {bag \in bags : /\ fits(bag)
                        /\ ~\E seen \in bags : fits(seen) /\ seen.color = bag.color /\ seen.id < bag.id}

wearableTogether(x, y) ==
    /\ x.role # y.role
    /\ ~("core_dress" \in {x.role, y.role} /\ {x.role, y.role} \cap {"core_top", "core_bottom"} # {})

evaluate(items) ==
    LET bags == itemsByRole(items, "accessory")
        looks == baseLooks(items)
        firstOf(fitting) == {bag \in fitting : Cardinality({b \in fitting : b.id < bag.id}) < A_max}
        outfits == UNION {{<<look, bag>> : bag \in firstOf(FittingBags(look, bags))} : look \in looks}
    IN  [count |-> Cardinality(looks) + Cardinality(outfits),
         baseLooks |-> Cardinality(looks),
         conflicts |-> {pair \in kSubset(2, items) :
                           \A x, y \in pair : x # y => wearableTogether(x, y) /\ ~compatible(x, y)}]

missingRoles(items) ==
    LET has(role) == itemsByRole(items, role) # {}
    IN  IF has("core_shoes") /\ (has("core_dress") \/ (has("core_top") /\ has("core_bottom"))) THEN {}
        ELSE {r \in {"core_top", "core_bottom"} : ~has("core_dress") /\ ~has(r)}
             \cup {r \in {"core_shoes"} : ~has(r)}
=============================================================================
