------------------------------ MODULE MCUploads ------------------------------
EXTENDS Uploads, TLC

CONSTANTS u1, u2, j1, j2, c1, c2, c3, e1, e2

Meta(t, s) == [type |-> t, size |-> s]

\* The largest photo, a small one of another type, and one byte too many.
MCMetas ==
    {Meta("image/jpeg", 10485760), Meta("image/webp", 1), Meta("image/jpeg", 10485761)}

NameSymmetry ==
    Permutations(Calls) \cup Permutations(Jobs) \cup Permutations(Users) \cup Permutations(ETags)
==============================================================================
