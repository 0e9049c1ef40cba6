----------------------------- MODULE MCProfiles -----------------------------
EXTENDS Profiles, TLC

CONSTANTS i1, i2, e1, e2, n1, n2, c1, c2, c3

NameSymmetry ==
    Permutations(EnsureCalls) \cup Permutations(Identities) \cup Permutations(Emails)
==============================================================================
