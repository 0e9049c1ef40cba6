--------------------------- MODULE MCGuestBrowser ---------------------------
EXTENDS GuestBrowser, TLC

CONSTANTS u1, u2, t1, t2, a1, a2, tab1, tab2

MCWardrobeOf == [p \in Presets |-> "female"]

Draft(list) == [wardrobe |-> "female", picked |-> list]

MCEmpty == Draft(<<>>)
MCLooks == {Draft(<<1, 2>>), Draft(<<2, 3>>)}
MCDrafts == MCLooks \cup {MCEmpty}
MCPicks == {d.picked : d \in MCDrafts}

NameSymmetry ==
    Permutations(Users) \cup Permutations(Transfers) \cup Permutations(Attempts)
        \cup Permutations(Tabs)
==============================================================================
