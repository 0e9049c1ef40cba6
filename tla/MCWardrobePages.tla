-------------------------- MODULE MCWardrobePages --------------------------
EXTENDS WardrobePages, TLC

CONSTANTS g1, g2, l1

Entry(s, f, c) == [status |-> s, favorite |-> f, inCapsule |-> c]

\* Two saved guest items; or one, and one of the user's own in each situation.
MCWardrobes ==
    {(g1 :> Entry("uncapsulated", FALSE, FALSE)) @@ (g2 :> Entry("for_sale", TRUE, FALSE))}
    \cup
    {(g1 :> Entry("uncapsulated", FALSE, FALSE)) @@ (l1 :> own) :
        own \in {Entry("uncapsulated", TRUE, FALSE), Entry("for_sale", FALSE, FALSE),
                 Entry("for_repair", TRUE, FALSE), Entry("active", TRUE, TRUE)}}
MCItems == {g1, g2, l1}
MCGuest == {g1, g2}
MCSymmetry == Permutations(Requests)
=============================================================================
