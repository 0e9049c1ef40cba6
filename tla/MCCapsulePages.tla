--------------------------- MODULE MCCapsulePages ---------------------------
EXTENDS CapsulePages, TLC

CONSTANTS A1, B1, D1, K1, photo, scarlet, navy, women, mixed, dress, boots, poncho

MCGroupOf == A1 :> "achromatic" @@ B1 :> "bright" @@ D1 :> "desaturated" @@ K1 :> "dark"
MCItemColors == photo :> <<>> @@ scarlet :> <<B1>> @@ navy :> <<K1>>
MCCategoriesOf == women :> {dress} @@ mixed :> {dress, boots}

Item(id, role, slot, color, group) == [id |-> id, role |-> role, slot |-> slot, color |-> color, group |-> group]
Wear(id, role, color, group) == Item(id, role, NoSlot, color, group)

Core == {Wear(1, "core_top", 11, "desaturated"), Wear(2, "core_bottom", 1, "achromatic"),
         Wear(3, "core_shoes", 1, "achromatic"), Wear(4, "core_shoes", 21, "dark")}
Dress == Wear(5, "core_dress", 31, "pastel")
Layers == {Wear(6, "layering_mid", 31, "pastel"), Wear(7, "layering_outer", 21, "dark")}
Custom == Wear(16, NoRole, 1, "achromatic")
\* Two grey bags, and of other colours one that is achromatic and one that is desaturated, pastel, dark.
Grey == {Item(9, "accessory", 1, 2, "achromatic"), Item(10, "accessory", 1, 2, "achromatic")}
Bags == Grey \cup {Item(11, "accessory", 1, 31, "pastel"), Item(12, "accessory", 1, 1, "achromatic"),
                  Item(13, "accessory", 1, 11, "desaturated")}
\* A hat that does not go with the dress, a scarf of its group, a belt without colours.
Small == {Item(8, "accessory", 4, 21, "dark"), Item(14, "accessory", 6, 32, "pastel"),
          Item(15, "accessory", 2, NoColor, "achromatic")}

Capsule(inside, available, palette) == [items |-> inside, available |-> available, palette |-> palette]
MCCapsules ==
    {Capsule(Core, {Dress, Custom} \cup Layers, {"achromatic", "dark"}),
     Capsule(Core \ {Wear(4, "core_shoes", 21, "dark")}, Bags, {"achromatic", "desaturated"}),
     Capsule({Dress, Wear(3, "core_shoes", 1, "achromatic")}, Grey \cup Small, {"achromatic"})}
=============================================================================
