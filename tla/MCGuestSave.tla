----------------------------- MODULE MCGuestSave -----------------------------
EXTENDS GuestSave

CONSTANTS u1, u2, t1, t2, a1, a2

MCWardrobeOf == [p \in Presets |-> "female"]

\* Overlapping selections in both orders, which inserted in the order sent could deadlock,
\* and the refused ones: a repeated identifier and one that is not in the catalog.
MCPicks == {<<1, 2>>, <<2, 1>>, <<1, 1>>, <<9>>}

MCPatches ==
    {[status |-> "active", favorite |-> Keep], [status |-> Keep, favorite |-> TRUE],
     [status |-> Keep, favorite |-> Keep]}
==============================================================================
