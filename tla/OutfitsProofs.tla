---------------------------- MODULE OutfitsProofs ---------------------------
(***************************************************************************)
(* What Outfits computes, for every finite list of items whose identifiers *)
(* are their own.                                                          *)
(*                                                                         *)
(* The order of texts is total on lists of up to three numbers, so among   *)
(* variations that look the same one is the first, and every step of the   *)
(* selection takes exactly one candidate: a look gets three variations, or *)
(* one for each way of looking.  Ways of looking only grow with the list,  *)
(* and so do the counts.  The guest's bags share a slot, so a variation of *)
(* the guest's look is one bag, and the two evaluators count the same.     *)
(***************************************************************************)
EXTENDS Outfits, FiniteSetTheorems, WellFoundedInduction, TLAPS

\* A non-empty set of natural numbers has a least element.
LEMMA LeastNatural ==
    ASSUME NEW T \in SUBSET Nat, T # {}
    PROVE  /\ \E i \in T : \A j \in T : i <= j
           /\ Min(T) \in T /\ \A j \in T : Min(T) <= j
<1>1. PICK i \in T : \A j \in T : <<j, i>> \notin OpToRel(<, Nat)
  BY WFMin, NatLessThanWellFounded, Zenon
<1>2. ASSUME NEW j \in T
      PROVE  ~(j < i)
  BY <1>1, Zenon DEF OpToRel
<1>3. ASSUME NEW j \in T
      PROVE  i <= j
  BY <1>2, <1>3
<1> QED
  BY <1>3 DEF Min

-----------------------------------------------------------------------------
(* The order of texts *)

Differ(S, T) == (S \ T) \cup (T \ S)

\* The least number that is in one list only decides.
LEMMA LeastDifference ==
    ASSUME NEW S \in SUBSET Nat, NEW T \in SUBSET Nat,
           NEW m \in Differ(S, T), \A x \in Differ(S, T) : m <= x
    PROVE  TextBefore(S, T) <=> IF m \in S THEN \E t \in T : t > m ELSE \A s \in S : s < m
<1>1. Differ(S, T) \in SUBSET Nat /\ Differ(S, T) # {}
  BY DEF Differ
<1>2. Min(Differ(S, T)) = m
  <2>1. Min(Differ(S, T)) \in Differ(S, T) /\ Min(Differ(S, T)) <= m
    BY <1>1, LeastNatural
  <2> QED
    BY <1>1, <2>1
<1> QED
  BY <1>1, <1>2 DEF TextBefore, Differ

\* No list is before itself, and of two lists one at most is before the other.
LEMMA TextBeforeIsAsymmetric ==
    ASSUME NEW S \in SUBSET Nat, NEW T \in SUBSET Nat, TextBefore(S, T)
    PROVE  S # T /\ ~TextBefore(T, S)
<1>1. Differ(S, T) # {} /\ Differ(S, T) = Differ(T, S) /\ Differ(S, T) \in SUBSET Nat
  BY DEF TextBefore, Differ
<1>2. PICK m \in Differ(S, T) : \A x \in Differ(S, T) : m <= x
  BY <1>1, LeastNatural
<1>3. /\ IF m \in S THEN \E t \in T : t > m ELSE \A s \in S : s < m
      /\ TextBefore(T, S) <=> IF m \in T THEN \E s \in S : s > m ELSE \A t \in T : t < m
  BY <1>1, <1>2, LeastDifference
<1>4. m \in Nat /\ (m \in S <=> m \notin T)
  BY <1>1 DEF Differ
<1> QED
  BY <1>1, <1>3, <1>4 DEF Differ

\* A list of one to three numbers.
Short(S) == S \in SUBSET (Nat \ {0}) /\ S # {} /\ IsFiniteSet(S) /\ Cardinality(S) <= 3

\* Its numbers in their order, 0 for one that is missing.
Spells(S, a, b, c) ==
    \/ b = 0 /\ c = 0 /\ S = {a}
    \/ a < b /\ c = 0 /\ S = {a, b}
    \/ a < b /\ b < c /\ S = {a, b, c}

\* A list of one to three numbers can be written in its order.
LEMMA ShortIsSpelt ==
    ASSUME NEW S, Short(S)
    PROVE  \E a \in Nat \ {0}, b \in Nat, c \in Nat : Spells(S, a, b, c)
<1>0. S \in SUBSET Nat /\ S # {} /\ IsFiniteSet(S) /\ Cardinality(S) <= 3 /\ 0 \notin S
      /\ Cardinality(S) \in Nat
  BY FS_CardinalityType DEF Short
<1>1. PICK a \in S : \A j \in S : a <= j
  BY <1>0, LeastNatural
<1> DEFINE R == S \ {a}
<1>2. /\ R \in SUBSET Nat /\ IsFiniteSet(R) /\ Cardinality(R) = Cardinality(S) - 1
      /\ \A j \in R : a < j
  BY <1>0, <1>1, FS_RemoveElement
<1>3. S = {a} \cup R /\ a \in Nat \ {0} /\ 0 \notin R
  BY <1>0, <1>1
<1> HIDE DEF R
<1>4. CASE R = {}
  BY <1>3, <1>4 DEF Spells
<1>5. CASE R # {}
  <2>1. PICK b \in R : \A j \in R : b <= j
    BY <1>2, <1>5, LeastNatural
  <2> DEFINE Q == R \ {b}
  <2>2. /\ Q \in SUBSET Nat /\ IsFiniteSet(Q) /\ Cardinality(Q) = Cardinality(R) - 1
        /\ \A j \in Q : b < j
    BY <1>2, <2>1, FS_RemoveElement
  <2>3. R = {b} \cup Q /\ b \in Nat /\ a < b
    BY <1>2, <2>1
  <2> HIDE DEF Q
  <2>4. CASE Q = {}
    <3>1. S = {a, b}
      BY <1>3, <2>3, <2>4
    <3> QED
      BY <1>3, <2>3, <3>1 DEF Spells
  <2>5. CASE Q # {}
    <3>1. PICK c \in Q : TRUE
      BY <2>5
    <3>2. IsFiniteSet(Q \ {c}) /\ Cardinality(Q \ {c}) = Cardinality(Q) - 1
      BY <2>2, FS_RemoveElement
    <3>3. Cardinality(Q \ {c}) <= 0 /\ Cardinality(Q \ {c}) \in Nat
      BY <1>0, <1>2, <2>2, <3>2, FS_CardinalityType
    <3>4. Q \ {c} = {}
      BY <3>2, <3>3, FS_EmptySet
    <3>5. S = {a, b, c} /\ b < c /\ c \in Nat
      BY <1>3, <2>2, <2>3, <3>4
    <3> QED
      BY <1>3, <2>3, <3>5 DEF Spells
  <2> QED
    BY <2>4, <2>5
<1> QED
  BY <1>4, <1>5

\* Lists are ordered by their first number, then their second, then their third.
LEMMA FirstNumberDecides ==
    ASSUME NEW a \in Nat \ {0}, NEW b \in Nat, NEW c \in Nat,
           NEW d \in Nat \ {0}, NEW e \in Nat, NEW f \in Nat,
           NEW S, NEW T, Spells(S, a, b, c), Spells(T, d, e, f),
           a < d \/ (a = d /\ b < e) \/ (a = d /\ b = e /\ c < f)
    PROVE  TextBefore(S, T)
<1>1. S \in SUBSET Nat /\ T \in SUBSET Nat
  BY DEF Spells
<1>2. CASE a < d
  <2>1. a \in Differ(S, T) /\ (\A x \in Differ(S, T) : a <= x) /\ a \in S /\ d \in T /\ d > a
    BY <1>2 DEF Spells, Differ
  <2> QED
    BY <1>1, <2>1, LeastDifference
<1>3. CASE a = d /\ b < e /\ b = 0
  <2>1. S = {a} /\ e \in T /\ e \notin S /\ a < e /\ e \in Differ(S, T) /\ \A x \in Differ(S, T) : e <= x
    BY <1>3 DEF Spells, Differ
  <2> QED
    BY <1>1, <2>1, LeastDifference
<1>4. CASE a = d /\ b < e /\ b # 0
  <2>1. b \in S /\ b \notin T /\ e \in T /\ b \in Differ(S, T) /\ \A x \in Differ(S, T) : b <= x
    BY <1>4 DEF Spells, Differ
  <2> QED
    BY <1>1, <1>4, <2>1, LeastDifference
<1>5. CASE a = d /\ b = e /\ c < f /\ c = 0
  <2>1. /\ S \subseteq {a, b} /\ f \in T /\ f \notin S /\ a < f /\ b < f
        /\ f \in Differ(S, T) /\ \A x \in Differ(S, T) : f <= x
    BY <1>5 DEF Spells, Differ
  <2> QED
    BY <1>1, <2>1, LeastDifference
<1>6. CASE a = d /\ b = e /\ c < f /\ c # 0
  <2>1. c \in S /\ c \notin T /\ f \in T /\ c \in Differ(S, T) /\ \A x \in Differ(S, T) : c <= x
    BY <1>6 DEF Spells, Differ
  <2> QED
    BY <1>1, <1>6, <2>1, LeastDifference
<1> QED
  BY <1>2, <1>3, <1>4, <1>5, <1>6

\* Of any lists one is before all others.
LEMMA FirstText ==
    ASSUME NEW K, K # {}, \A S \in K : Short(S)
    PROVE  \E S \in K : \A T \in K : T # S => TextBefore(S, T)
<1> DEFINE A == {a \in Nat \ {0} : \E S \in K : \E b, c \in Nat : Spells(S, a, b, c)}
<1>1. A \in SUBSET Nat /\ A # {}
  BY ShortIsSpelt
<1>2. PICK a \in A : \A x \in A : a <= x
  BY <1>1, LeastNatural
<1> DEFINE B == {b \in Nat : \E S \in K : \E c \in Nat : Spells(S, a, b, c)}
<1>3. B \in SUBSET Nat /\ B # {}
  BY <1>2
<1>4. PICK b \in B : \A x \in B : b <= x
  BY <1>3, LeastNatural
<1> DEFINE C == {c \in Nat : \E S \in K : Spells(S, a, b, c)}
<1>5. C \in SUBSET Nat /\ C # {}
  BY <1>4
<1>6. PICK c \in C : \A x \in C : c <= x
  BY <1>5, LeastNatural
<1>7. PICK S \in K : Spells(S, a, b, c)
  BY <1>6
<1>8. ASSUME NEW T \in K, T # S
      PROVE  TextBefore(S, T)
  <2>1. PICK d \in Nat \ {0}, e \in Nat, f \in Nat : Spells(T, d, e, f)
    BY ShortIsSpelt
  <2>2. d \in A /\ (d = a => e \in B) /\ (d = a /\ e = b => f \in C)
    BY <2>1
  <2>3. a <= d /\ (d = a => b <= e) /\ (d = a /\ e = b => c <= f)
    BY <1>2, <1>4, <1>6, <2>2
  <2>4. ~(a = d /\ b = e /\ c = f)
    BY <1>7, <1>8, <2>1 DEF Spells
  <2>5. a < d \/ (a = d /\ b < e) \/ (a = d /\ b = e /\ c < f)
    BY <1>2, <1>4, <1>6, <2>3, <2>4
  <2> QED
    BY <1>2, <1>4, <1>6, <1>7, <2>1, <2>5, FirstNumberDecides
<1> QED
  BY <1>8

-----------------------------------------------------------------------------
(* Variations and what they look like *)

\* A finite list of items whose identifiers are their own.
Listed(list) ==
    /\ list \subseteq ItemRecord
    /\ IsFiniteSet(list)
    /\ \A i, j \in list : i.id = j.id => i = j

Accessories(list) == itemsByRole(list, "accessory")

\* A variation has one to three accessories of the list, all with a slot.
LEMMA VisitShape ==
    ASSUME NEW list, Listed(list), NEW look, NEW v \in Visit(look, Accessories(list))
    PROVE  /\ v \subseteq list /\ \A a \in v : a.slot \in Slots
           /\ IsFiniteSet(v) /\ Cardinality(v) \in 1..3 /\ v # {}
<1>1. PICK k \in 1..A_max : v \in kSubset(k, {a \in Accessories(list) : a.slot # NoSlot})
  BY DEF Visit
<1>2. v \subseteq {a \in Accessories(list) : a.slot # NoSlot} /\ Cardinality(v) = k
  BY <1>1 DEF kSubset
<1>3. v \subseteq list /\ \A a \in v : a.slot \in Slots
  BY <1>2 DEF Accessories, itemsByRole, Listed, ItemRecord
<1>4. IsFiniteSet(v)
  BY <1>3, FS_Subset DEF Listed
<1> QED
  BY <1>1, <1>2, <1>3, <1>4, FS_EmptySet DEF A_max

\* The numbers of an accessory
LEMMA TupleType ==
    ASSUME NEW a \in ItemRecord, a.slot \in Slots
    PROVE  a.id \in Nat \ {0} /\ Tuple(a) \in Nat \ {0}
<1>1. a.id \in 1..ItemCount /\ a.slot \in 1..6 /\ a.color \in 0..ColorCount
  BY CountsAssumption DEF ItemRecord, ItemIds, Slots, ColorIds, NoColor
<1>2. accessoryColorId(a) \in Nat
  BY <1>1, CountsAssumption DEF accessoryColorId, NoColor
<1>3. Width \in Nat \ {0}
  BY CountsAssumption DEF Width
<1>4. Width * a.slot \in Nat \ {0}
  <2> \A w \in Nat \ {0} : /\ w * 1 = w /\ w * 2 = w + w /\ w * 3 = w + w + w
                           /\ w * 4 = w + w + w + w /\ w * 5 = w + w + w + w + w
                           /\ w * 6 = w + w + w + w + w + w
    OBVIOUS
  <2> QED
    BY <1>1, <1>3
<1>5. a.id \in Nat \ {0}
  BY <1>1, CountsAssumption
<1> QED
  BY <1>2, <1>4, <1>5 DEF Tuple

\* Its identifiers and its tuples are lists of one to three numbers.
LEMMA VariationsAreShort ==
    ASSUME NEW list, Listed(list), NEW look, NEW v \in Visit(look, Accessories(list))
    PROVE  Short(canonicalItemIds(v)) /\ Short(accessoryVariationKey(v))
<1>0. /\ v \subseteq ItemRecord /\ \A a \in v : a.slot \in Slots
      /\ IsFiniteSet(v) /\ Cardinality(v) \in 1..3 /\ v # {}
  BY VisitShape DEF Listed
<1>1. Short(canonicalItemIds(v))
  <2> DEFINE f == [a \in v |-> a.id]
  <2>1. f \in Surjection(v, canonicalItemIds(v))
    BY DEF Surjection, canonicalItemIds
  <2>2. canonicalItemIds(v) \in SUBSET (Nat \ {0}) /\ canonicalItemIds(v) # {}
    BY <1>0, TupleType DEF canonicalItemIds
  <2> HIDE DEF f
  <2>3. IsFiniteSet(canonicalItemIds(v)) /\ Cardinality(canonicalItemIds(v)) <= Cardinality(v)
    BY <1>0, <2>1, FS_Surjection
  <2> QED
    BY <1>0, <2>2, <2>3, FS_CardinalityType DEF Short
<1>2. Short(accessoryVariationKey(v))
  <2> DEFINE f == [a \in v |-> Tuple(a)]
  <2>1. f \in Surjection(v, accessoryVariationKey(v))
    BY DEF Surjection, accessoryVariationKey
  <2>2. accessoryVariationKey(v) \in SUBSET (Nat \ {0}) /\ accessoryVariationKey(v) # {}
    BY <1>0, TupleType DEF accessoryVariationKey
  <2> HIDE DEF f
  <2>3. /\ IsFiniteSet(accessoryVariationKey(v))
        /\ Cardinality(accessoryVariationKey(v)) <= Cardinality(v)
    BY <1>0, <2>1, FS_Surjection
  <2> QED
    BY <1>0, <2>2, <2>3, FS_CardinalityType DEF Short
<1> QED
  BY <1>1, <1>2

\* Among the variations that look the same one is retained, and only one.
LEMMA CanonicalKeys ==
    ASSUME NEW list, Listed(list), NEW look
    PROVE  LET found == Visit(look, Accessories(list))
               kept == retainCanonicalVariation(found)
           IN  /\ \A v, w \in kept : accessoryVariationKey(v) = accessoryVariationKey(w) => v = w
               /\ \A v \in found : \E w \in kept : accessoryVariationKey(w) = accessoryVariationKey(v)
<1> DEFINE found == Visit(look, Accessories(list))
           kept == retainCanonicalVariation(found)
<1>1. \A v \in found : Short(canonicalItemIds(v)) /\ v \subseteq list
  BY VisitShape, VariationsAreShort
<1>2. ASSUME NEW v \in found, NEW w \in found, canonicalItemIds(v) = canonicalItemIds(w)
      PROVE  v = w
  <2>1. v \subseteq list /\ w \subseteq list
    BY <1>1
  <2>2. \A a \in v : a.id \in canonicalItemIds(w)
    BY <1>2 DEF canonicalItemIds
  <2>3. \A a \in w : a.id \in canonicalItemIds(v)
    BY <1>2 DEF canonicalItemIds
  <2>4. \A a \in v : \E b \in w : a.id = b.id
    BY <2>2 DEF canonicalItemIds
  <2>5. \A a \in w : \E b \in v : a.id = b.id
    BY <2>3 DEF canonicalItemIds
  <2>6. \A i, j \in list : i.id = j.id => i = j
    BY DEF Listed
  <2>7. (\A a \in v : a \in w) /\ (\A a \in w : a \in v)
    BY <2>1, <2>4, <2>5, <2>6
  <2> QED
    BY <2>7, Zenon
<1>k. kept = {v \in found : \A w \in found :
                w # v /\ accessoryVariationKey(w) = accessoryVariationKey(v)
                    => TextBefore(canonicalItemIds(v), canonicalItemIds(w))}
  BY DEF retainCanonicalVariation
<1> HIDE DEF found, kept
<1>3. ASSUME NEW v \in kept, NEW w \in kept, accessoryVariationKey(v) = accessoryVariationKey(w)
      PROVE  v = w
  <2> SUFFICES ASSUME v # w
               PROVE  FALSE
    OBVIOUS
  <2>1. v \in found /\ w \in found
    BY <1>k
  <2>2. /\ TextBefore(canonicalItemIds(v), canonicalItemIds(w))
        /\ TextBefore(canonicalItemIds(w), canonicalItemIds(v))
    BY <1>3, <1>k
  <2>3. canonicalItemIds(v) \in SUBSET Nat /\ canonicalItemIds(w) \in SUBSET Nat
    BY <1>1, <2>1 DEF Short
  <2> QED
    BY <2>2, <2>3, TextBeforeIsAsymmetric
<1>4. ASSUME NEW v \in found
      PROVE  \E w \in kept : accessoryVariationKey(w) = accessoryVariationKey(v)
  <2> DEFINE twins == {w \in found : accessoryVariationKey(w) = accessoryVariationKey(v)}
             texts == {canonicalItemIds(w) : w \in twins}
  <2>1. texts # {} /\ \A S \in texts : Short(S)
    BY <1>1
  <2>2. PICK S \in texts : \A T \in texts : T # S => TextBefore(S, T)
    <3> HIDE DEF texts
    <3> QED
      BY <2>1, FirstText
  <2>3. PICK u \in twins : S = canonicalItemIds(u)
    OBVIOUS
  <2>4. ASSUME NEW w \in found, w # u, accessoryVariationKey(w) = accessoryVariationKey(u)
        PROVE  TextBefore(canonicalItemIds(u), canonicalItemIds(w))
    <3>1. canonicalItemIds(w) \in texts
      BY <2>4
    <3>2. canonicalItemIds(w) # canonicalItemIds(u)
      BY <1>2, <2>4
    <3> QED
      BY <2>2, <2>3, <3>1, <3>2
  <2> QED
    BY <1>k, <2>4
<1> QED
  BY <1>3, <1>4 DEF found, kept

-----------------------------------------------------------------------------
(* The selection *)

\* A set of numbers up to six has a greatest.
LEMMA GreatestRank ==
    ASSUME NEW R \in SUBSET (0..6), R # {}
    PROVE  \E r \in R : \A s \in R : s <= r
<1> DEFINE N == {6 - r : r \in R}
<1>1. N \in SUBSET Nat /\ N # {}
  <2>1. \A r \in R : 6 - r \in Nat
    OBVIOUS
  <2> QED
    BY <2>1
<1>2. PICK n \in N : \A m \in N : n <= m
  BY <1>1, LeastNatural
<1>3. PICK r \in R : n = 6 - r
  OBVIOUS
<1>4. ASSUME NEW s \in R
      PROVE  s <= r
  <2>1. 6 - s \in N
    OBVIOUS
  <2>2. 6 - r <= 6 - s
    BY <1>2, <1>3, <2>1
  <2>3. r \in 0..6 /\ s \in 0..6
    OBVIOUS
  <2> QED
    BY <2>2, <2>3
<1> QED
  BY <1>4

\* Two variations are at most six slots apart.
LEMMA DistanceIsSmall ==
    ASSUME NEW v, NEW w, Short(accessoryVariationKey(v)), Short(accessoryVariationKey(w))
    PROVE  variationDistance(v, w) \in 0..6
<1> DEFINE S == accessoryVariationKey(v)
           T == accessoryVariationKey(w)
           D == (S \ T) \cup (T \ S)
           slots == {SlotOf(x) : x \in D}
           f == [x \in D |-> SlotOf(x)]
<1>1. IsFiniteSet(S) /\ Cardinality(S) \in 0..3 /\ IsFiniteSet(T) /\ Cardinality(T) \in 0..3
  BY FS_CardinalityType DEF Short
<1>2. IsFiniteSet(S \cup T) /\ Cardinality(S \cup T) \in 0..6
  <2> HIDE DEF S, T
  <2>1. /\ IsFiniteSet(S \cup T)
        /\ Cardinality(S \cup T) = Cardinality(S) + Cardinality(T) - Cardinality(S \cap T)
    BY <1>1, FS_Union
  <2>2. IsFiniteSet(S \cap T)
    BY <1>1, FS_Intersection
  <2> QED
    BY <1>1, <2>1, <2>2, FS_CardinalityType
<1>3. IsFiniteSet(D) /\ Cardinality(D) <= Cardinality(S \cup T)
  <2>1. D \in SUBSET (S \cup T)
    OBVIOUS
  <2> QED
    BY <1>2, <2>1, FS_Subset
<1>4. f \in Surjection(D, slots)
  <2> HIDE DEF D
  <2> QED
    BY DEF Surjection
<1>5. IsFiniteSet(slots) /\ Cardinality(slots) <= Cardinality(D)
  <2> HIDE DEF f, D, slots
  <2> QED
    BY <1>3, <1>4, FS_Surjection
<1>6. variationDistance(v, w) = Cardinality(slots)
  BY DEF variationDistance
<1> HIDE DEF D, S, T, slots, f
<1> QED
  BY <1>2, <1>3, <1>5, <1>6, FS_CardinalityType

\* While candidates remain, a step of the selection takes exactly one of them.
LEMMA SelectNextTakesOne ==
    ASSUME NEW options, NEW selected \in SUBSET options,
           \A v \in options : Short(accessoryVariationKey(v)) /\ Cardinality(v) \in 1..3,
           \A v, w \in options : accessoryVariationKey(v) = accessoryVariationKey(w) => v = w,
           options \ selected # {}
    PROVE  \E v \in options \ selected : SelectNext(options, selected) = selected \cup {v}
<1> DEFINE remaining == options \ selected
           rank(v) == IF selected = {} THEN Cardinality(v) ELSE DistanceTo(v, selected)
           ranks == {rank(v) : v \in remaining}
<1>1. ASSUME NEW v \in remaining
      PROVE  rank(v) \in 0..6
  <2>1. CASE selected = {}
    BY <2>1
  <2>2. CASE selected # {}
    <3> DEFINE distances == {variationDistance(v, s) : s \in selected}
    <3>1. distances # {} /\ distances \in SUBSET (0..6)
      BY <2>2, DistanceIsSmall
    <3>2. distances \in SUBSET Nat
      BY <3>1
    <3>3. Min(distances) \in distances
      <4> HIDE DEF distances
      <4> QED
        BY <3>1, <3>2, LeastNatural
    <3>4. rank(v) = Min(distances)
      BY <2>2 DEF DistanceTo
    <3> HIDE DEF distances, rank
    <3> QED
      BY <3>1, <3>3, <3>4
  <2> QED
    BY <2>1, <2>2
<1>2. PICK r \in ranks : \A s \in ranks : s <= r
  <2> HIDE DEF rank
  <2>1. ranks \in SUBSET (0..6) /\ ranks # {}
    BY <1>1
  <2> QED
    BY <2>1, GreatestRank
<1> DEFINE best == {v \in remaining : rank(v) = r}
           keys == {accessoryVariationKey(v) : v \in best}
<1>3. best # {} /\ best \subseteq remaining
  OBVIOUS
<1>4. keys # {} /\ \A S \in keys : Short(S)
  BY <1>3
<1>5. PICK K \in keys : \A T \in keys : T # K => TextBefore(K, T)
  <2> HIDE DEF keys
  <2> QED
    BY <1>4, FirstText
<1>6. PICK u \in best : K = accessoryVariationKey(u)
  BY <1>5
<1>c. \A v, w : compareVariationCandidates(v, w, selected)
                    <=> \/ rank(v) > rank(w)
                        \/ rank(v) = rank(w) /\ TextBefore(accessoryVariationKey(v), accessoryVariationKey(w))
  BY DEF compareVariationCandidates
<1>r. \A v \in remaining : rank(v) \in 0..6 /\ rank(v) <= r
  BY <1>1, <1>2
<1>u. u \in remaining /\ rank(u) = r
  BY <1>6
<1>7. ASSUME NEW w \in remaining \ {u}
      PROVE  compareVariationCandidates(u, w, selected)
  <2>1. CASE rank(w) = r
    <3>1. accessoryVariationKey(w) \in keys
      BY <2>1
    <3>2. accessoryVariationKey(w) # K
      BY <1>6, <1>u, <1>7
    <3> QED
      BY <1>5, <1>6, <1>c, <1>u, <2>1, <3>1, <3>2
  <2>2. CASE rank(w) # r
    <3> HIDE DEF rank
    <3>1. rank(u) > rank(w)
      BY <1>7, <1>r, <1>u, <2>2
    <3> QED
      BY <1>c, <3>1
  <2> QED
    BY <2>1, <2>2
<1>8. ASSUME NEW w \in remaining \ {u}
      PROVE  ~compareVariationCandidates(w, u, selected)
  <2>1. accessoryVariationKey(w) \in SUBSET Nat /\ accessoryVariationKey(u) \in SUBSET Nat
    BY <1>u, <1>8 DEF Short
  <2>2. /\ rank(w) \in 0..6 /\ rank(u) \in 0..6
        /\ \/ rank(u) > rank(w)
           \/ /\ rank(u) = rank(w)
              /\ TextBefore(accessoryVariationKey(u), accessoryVariationKey(w))
    BY <1>c, <1>r, <1>u, <1>7, <1>8
  <2>3. TextBefore(accessoryVariationKey(u), accessoryVariationKey(w))
            => ~TextBefore(accessoryVariationKey(w), accessoryVariationKey(u))
    BY <2>1, TextBeforeIsAsymmetric
  <2> HIDE DEF rank
  <2> QED
    BY <1>c, <2>2, <2>3
<1>9. {v \in remaining : \A w \in remaining \ {v} : compareVariationCandidates(v, w, selected)} = {u}
  BY <1>u, <1>7, <1>8
<1> QED
  BY <1>u, <1>9 DEF SelectNext

\* Three candidates are selected, or all when there are fewer.
LEMMA SelectionShape ==
    ASSUME NEW list, Listed(list), NEW look
    PROVE  LET options == retainCanonicalVariation(Visit(look, Accessories(list)))
               chosen == selectAccessoryVariations(look, Accessories(list))
           IN  /\ chosen \subseteq options /\ IsFiniteSet(chosen) /\ Cardinality(chosen) \in 0..3
               /\ Cardinality(chosen) < 3 => chosen = options
<1> DEFINE options == retainCanonicalVariation(Visit(look, Accessories(list)))
           first == SelectNext(options, {})
           second == SelectNext(options, first)
           third == SelectNext(options, second)
<1>1. \A v \in options : Short(accessoryVariationKey(v)) /\ Cardinality(v) \in 1..3
  BY VisitShape, VariationsAreShort DEF retainCanonicalVariation
<1>2. \A v, w \in options : accessoryVariationKey(v) = accessoryVariationKey(w) => v = w
  BY CanonicalKeys
<1>3. selectAccessoryVariations(look, Accessories(list)) = third
  BY DEF selectAccessoryVariations
<1> HIDE DEF options
<1>4. ASSUME NEW S \in SUBSET options, IsFiniteSet(S), Cardinality(S) \in Nat
      PROVE  LET T == SelectNext(options, S)
             IN  /\ T \in SUBSET options /\ IsFiniteSet(T)
                 /\ \/ T = options /\ Cardinality(T) = Cardinality(S)
                    \/ Cardinality(T) = Cardinality(S) + 1
  <2>1. CASE options \ S = {}
    <3>1. SelectNext(options, S) = S /\ S = options
      BY <1>4, <2>1 DEF SelectNext
    <3> QED
      BY <1>4, <3>1
  <2>2. CASE options \ S # {}
    <3>1. PICK v \in options \ S : SelectNext(options, S) = S \cup {v}
      BY <1>1, <1>2, <1>4, <2>2, SelectNextTakesOne
    <3>2. IsFiniteSet(S \cup {v}) /\ Cardinality(S \cup {v}) = Cardinality(S) + 1
      BY <1>4, <3>1, FS_AddElement
    <3> QED
      BY <3>1, <3>2
  <2> QED
    BY <2>1, <2>2
<1>5. /\ first \in SUBSET options /\ IsFiniteSet(first) /\ Cardinality(first) \in 0..1
      /\ Cardinality(first) = 1 \/ first = options
  BY <1>4, FS_EmptySet
<1> HIDE DEF first
<1>6. /\ second \in SUBSET options /\ IsFiniteSet(second) /\ Cardinality(second) \in 0..2
      /\ Cardinality(second) = 2 \/ second = options
  <2>1. /\ second \in SUBSET options /\ IsFiniteSet(second)
        /\ \/ second = options /\ Cardinality(second) = Cardinality(first)
           \/ Cardinality(second) = Cardinality(first) + 1
    BY <1>4, <1>5
  <2>2. first = options => second = options
    BY DEF second, SelectNext
  <2> HIDE DEF second
  <2> QED
    BY <1>5, <2>1, <2>2
<1> HIDE DEF second
<1>7. /\ third \in SUBSET options /\ IsFiniteSet(third) /\ Cardinality(third) \in 0..3
      /\ Cardinality(third) = 3 \/ third = options
  <2>1. /\ third \in SUBSET options /\ IsFiniteSet(third)
        /\ \/ third = options /\ Cardinality(third) = Cardinality(second)
           \/ Cardinality(third) = Cardinality(second) + 1
    BY <1>4, <1>6
  <2>2. second = options => third = options
    BY DEF third, SelectNext
  <2> HIDE DEF third
  <2> QED
    BY <1>6, <2>1, <2>2
<1> HIDE DEF third
<1> QED
  BY <1>3, <1>7 DEF options

\* The variations of a look that are shown: they look different, there are at most three, and with
\* fewer than three nothing that looks different is left out.
LEMMA VariationsTellApart ==
    ASSUME NEW list, Listed(list), NEW look
    PROVE  LET found == Visit(look, Accessories(list))
               chosen == selectAccessoryVariations(look, Accessories(list))
               looks(variations) == {accessoryVariationKey(v) : v \in variations}
           IN  /\ IsFiniteSet(looks(chosen)) /\ Cardinality(looks(chosen)) = Cardinality(chosen)
               /\ looks(chosen) \subseteq looks(found)
               /\ Cardinality(chosen) \in 0..3
               /\ Cardinality(chosen) < 3 => looks(found) = looks(chosen)
<1> DEFINE found == Visit(look, Accessories(list))
           options == retainCanonicalVariation(found)
           chosen == selectAccessoryVariations(look, Accessories(list))
           looks(variations) == {accessoryVariationKey(v) : v \in variations}
           f == [v \in chosen |-> accessoryVariationKey(v)]
<1>1. /\ chosen \subseteq options /\ IsFiniteSet(chosen) /\ Cardinality(chosen) \in 0..3
      /\ Cardinality(chosen) < 3 => chosen = options
  BY SelectionShape
<1>2. /\ \A v, w \in options : accessoryVariationKey(v) = accessoryVariationKey(w) => v = w
      /\ \A v \in found : \E w \in options : accessoryVariationKey(w) = accessoryVariationKey(v)
  BY CanonicalKeys
<1>3. options \subseteq found
  BY DEF retainCanonicalVariation
<1> HIDE DEF found, options, chosen
<1>4. f \in Bijection(chosen, looks(chosen))
  <2>1. f \in Surjection(chosen, looks(chosen))
    BY DEF Surjection
  <2>2. f \in Injection(chosen, looks(chosen))
    BY <1>1, <1>2 DEF Injection, IsInjective
  <2> QED
    BY <2>1, <2>2 DEF Bijection
<1>5. IsFiniteSet(looks(chosen)) /\ Cardinality(looks(chosen)) = Cardinality(chosen)
  <2> HIDE DEF f, looks
  <2> QED
    BY <1>1, <1>4, FS_Bijection DEF ExistsBijection
<1>6. looks(options) = looks(found)
  BY <1>2, <1>3
<1>7. looks(chosen) \subseteq looks(found)
  BY <1>1, <1>3
<1> QED
  BY <1>1, <1>5, <1>6, <1>7 DEF found, chosen

-----------------------------------------------------------------------------
(* The figures of the capsule page *)

\* The base looks are made of core items of the list.
LEMMA LooksAreCore ==
    ASSUME NEW list, NEW look \in buildValidBaseLooks(eligibleProductivityItems(list))
    PROVE  look \subseteq list /\ \A i \in look : i.role # "accessory"
  BY DEF buildValidBaseLooks, eligibleProductivityItems, itemsByRole

\* A step of the selection takes candidates only.
LEMMA SelectNextTakesCandidates ==
    ASSUME NEW options, NEW selected \in SUBSET options
    PROVE  SelectNext(options, selected) \in SUBSET options
  BY DEF SelectNext

\* The variations of a look are not empty and are made of accessories of the list.
LEMMA VariationsAreAccessories ==
    ASSUME NEW list, NEW look, NEW v \in VariationsOf(look, list)
    PROVE  v \subseteq list /\ v # {} /\ \A i \in v : i.role = "accessory"
<1> DEFINE accessories == itemsByRole(eligibleProductivityItems(list), "accessory")
           options == retainCanonicalVariation(Visit(look, accessories))
<1>1. accessories \subseteq list /\ \A i \in accessories : i.role = "accessory"
  BY DEF itemsByRole, eligibleProductivityItems
<1>2. v \in options
  <2> HIDE DEF options
  <2>1. SelectNext(options, {}) \in SUBSET options
    BY SelectNextTakesCandidates
  <2>2. SelectNext(options, SelectNext(options, {})) \in SUBSET options
    BY <2>1, SelectNextTakesCandidates
  <2>3. SelectNext(options, SelectNext(options, SelectNext(options, {}))) \in SUBSET options
    BY <2>2, SelectNextTakesCandidates
  <2>4. v \in SelectNext(options, SelectNext(options, SelectNext(options, {})))
    BY DEF VariationsOf, selectAccessoryVariations, options, accessories
  <2> QED
    BY <2>3, <2>4
<1>3. PICK k \in 1..A_max : v \in kSubset(k, {a \in accessories : a.slot # NoSlot})
  BY <1>2 DEF retainCanonicalVariation, Visit
<1>4. v \subseteq accessories /\ Cardinality(v) = k
  BY <1>3 DEF kSubset
<1>5. v # {}
  BY <1>4, FS_EmptySet
<1> QED
  BY <1>1, <1>4, <1>5

\* A card tells its look and its variation: its items that are not accessories, and those that are.
LEMMA CardsAreCounted ==
    ASSUME NEW list, IsFiniteSet(list)
    PROVE  /\ IsFiniteSet(countedOutfits(list))
           /\ Cardinality(buildPreviewOutfitCards(list)) = Cardinality(countedOutfits(list))
<1> DEFINE counted == countedOutfits(list)
           cards == buildPreviewOutfitCards(list)
           card == [p \in counted |-> p[1] \cup p[2]]
<1>1. ASSUME NEW p \in counted
      PROVE  \E look, v \in SUBSET list :
                 /\ p = <<look, v>> /\ card[p] = look \cup v
                 /\ look = {i \in card[p] : i.role # "accessory"}
                 /\ v = {i \in card[p] : i.role = "accessory"}
  <2>0. PICK look \in buildValidBaseLooks(eligibleProductivityItems(list)) :
            p \in {<<look, v>> : v \in {{}} \cup VariationsOf(look, list)}
    BY DEF countedOutfits, PreviewBaseLooks
  <2>1. PICK v \in {{}} \cup VariationsOf(look, list) : p = <<look, v>>
    BY <2>0
  <2>2. look \subseteq list /\ \A i \in look : i.role # "accessory"
    BY LooksAreCore
  <2>3. v \subseteq list /\ \A i \in v : i.role = "accessory"
    BY VariationsAreAccessories
  <2>4. card[p] = look \cup v
    BY <2>1
  <2> HIDE DEF card, counted
  <2> QED
    BY <2>1, <2>2, <2>3, <2>4
<1>2. /\ \A p \in counted : card[p] \in cards
      /\ \A c \in cards : \E p \in counted : card[p] = c
  <2> DEFINE looks == PreviewBaseLooks(list)
             pairs(l) == {<<l.items, v>> : v \in {{}} \cup l.variations}
             unions(l) == {l.items \cup v : v \in {{}} \cup l.variations}
  <2>1. counted = UNION {pairs(l) : l \in looks} /\ cards = UNION {unions(l) : l \in looks}
    BY DEF countedOutfits, buildPreviewOutfitCards
  <2>2. \A p \in counted : card[p] = p[1] \cup p[2]
    OBVIOUS
  <2> HIDE DEF counted, cards, card, looks
  <2>3. ASSUME NEW p \in counted
        PROVE  card[p] \in cards
    <3>1. PICK l \in looks : p \in pairs(l)
      BY <2>1
    <3>2. PICK v \in {{}} \cup l.variations : p = <<l.items, v>>
      BY <3>1
    <3>3. l.items \cup v \in unions(l)
      OBVIOUS
    <3>4. card[p] = l.items \cup v
      BY <2>2, <3>2
    <3> HIDE DEF unions, pairs
    <3>5. card[p] \in unions(l)
      BY <3>3, <3>4, Zenon
    <3> QED
      BY <2>1, <3>5, Zenon
  <2>4. ASSUME NEW c \in cards
        PROVE  \E p \in counted : card[p] = c
    <3>1. PICK l \in looks : c \in unions(l)
      BY <2>1
    <3>2. PICK v \in {{}} \cup l.variations : c = l.items \cup v
      BY <3>1
    <3>3. <<l.items, v>> \in counted
      BY <2>1
    <3> QED
      BY <2>2, <3>2, <3>3
  <2> QED
    BY <2>3, <2>4
<1>3. card \in Bijection(counted, cards)
  <2>1. card \in [counted -> cards]
    BY <1>2
  <2> HIDE DEF card, counted, cards
  <2>2. ASSUME NEW p \in counted, NEW q \in counted, card[p] = card[q]
        PROVE  p = q
    BY <1>1, <2>2
  <2>3. card \in Injection(counted, cards)
    BY <2>1, <2>2 DEF Injection, IsInjective
  <2>4. card \in Surjection(counted, cards)
    BY <1>2, <2>1 DEF Surjection
  <2> QED
    BY <2>3, <2>4 DEF Bijection
<1>4. IsFiniteSet(counted)
  <2>1. counted \in SUBSET ((SUBSET list) \X (SUBSET list))
    <3> SUFFICES ASSUME NEW p \in counted
                 PROVE  p \in (SUBSET list) \X (SUBSET list)
      OBVIOUS
    <3>1. PICK look, v \in SUBSET list : p = <<look, v>>
      BY <1>1
    <3> QED
      BY <3>1
  <2>2. IsFiniteSet((SUBSET list) \X (SUBSET list))
    BY FS_SUBSET, FS_Product
  <2> QED
    BY <2>1, <2>2, FS_Subset
<1> QED
  BY <1>3, <1>4, FS_Bijection DEF ExistsBijection

\* What is counted: each base look, bare and with each of its variations.
LEMMA CountedShape ==
    ASSUME NEW list
    PROVE  \A p : p \in countedOutfits(list) <=>
                    \E look \in buildValidBaseLooks(eligibleProductivityItems(list)) :
                        \E v \in {{}} \cup VariationsOf(look, list) : p = <<look, v>>
<1> DEFINE looks == buildValidBaseLooks(eligibleProductivityItems(list))
           preview(look) == [items |-> look, variations |-> VariationsOf(look, list)]
<1>1. countedOutfits(list) =
          UNION {{<<l.items, v>> : v \in {{}} \cup l.variations} : l \in {preview(look) : look \in looks}}
  BY DEF countedOutfits, PreviewBaseLooks
<1>2. \A look : preview(look).items = look /\ preview(look).variations = VariationsOf(look, list)
  OBVIOUS
<1> HIDE DEF looks, preview
<1>3. ASSUME NEW p \in countedOutfits(list)
      PROVE  \E look \in looks : \E v \in {{}} \cup VariationsOf(look, list) : p = <<look, v>>
  <2>1. PICK look \in looks : \E v \in {{}} \cup preview(look).variations : p = <<preview(look).items, v>>
    BY <1>1
  <2> QED
    BY <1>2, <2>1
<1>4. ASSUME NEW look \in looks, NEW v \in {{}} \cup VariationsOf(look, list)
      PROVE  <<look, v>> \in countedOutfits(list)
  <2>1. <<preview(look).items, v>> \in countedOutfits(list)
    BY <1>1, <1>2, <1>4
  <2> QED
    BY <1>2, <2>1
<1> QED
  BY <1>3, <1>4 DEF looks

\* Items without a role are no accessories.
LEMMA VariationsOfList ==
    ASSUME NEW list, NEW look
    PROVE  VariationsOf(look, list) = selectAccessoryVariations(look, Accessories(list))
<1>1. itemsByRole(eligibleProductivityItems(list), "accessory") = Accessories(list)
  BY DEF itemsByRole, eligibleProductivityItems, Accessories, NoRole
<1> QED
  BY <1>1 DEF VariationsOf

\* A look has at most three variations.
LEMMA VariationsAreFinite ==
    ASSUME NEW list, Listed(list), NEW look
    PROVE  IsFiniteSet(VariationsOf(look, list)) /\ Cardinality(VariationsOf(look, list)) \in 0..3
  BY SelectionShape, VariationsOfList

-----------------------------------------------------------------------------
(* A list that grows *)

\* The smaller of two finite sets has an injection into the other.
LEMMA SmallerInjects ==
    ASSUME NEW S, NEW T, IsFiniteSet(S), IsFiniteSet(T), Cardinality(S) <= Cardinality(T)
    PROVE  \E f : f \in Injection(S, T)
<1>1. /\ Cardinality(S) \in Nat /\ ExistsBijection(1..Cardinality(S), S)
      /\ Cardinality(T) \in Nat /\ ExistsBijection(1..Cardinality(T), T)
  BY FS_CardinalityType
<1>2. PICK g \in Bijection(1..Cardinality(S), S), h \in Bijection(1..Cardinality(T), T) : TRUE
  BY <1>1 DEF ExistsBijection
<1> DEFINE at == [x \in S |-> CHOOSE i \in 1..Cardinality(S) : g[i] = x]
           f == [x \in S |-> h[at[x]]]
<1>3. \A x \in S : at[x] \in 1..Cardinality(S) /\ g[at[x]] = x
  BY <1>2 DEF Bijection, Surjection
<1> HIDE DEF at
<1>4. \A x \in S : at[x] \in 1..Cardinality(T)
  BY <1>1, <1>3
<1>5. f \in [S -> T]
  BY <1>2, <1>4 DEF Bijection, Injection
<1>6. ASSUME NEW x \in S, NEW y \in S, f[x] = f[y]
      PROVE  x = y
  <2>1. h[at[x]] = h[at[y]]
    BY <1>6
  <2>2. at[x] = at[y]
    BY <1>2, <1>4, <2>1 DEF Bijection, Injection, IsInjective
  <2> QED
    BY <1>3, <2>2
<1> HIDE DEF f
<1>7. f \in Injection(S, T)
  BY <1>5, <1>6 DEF Injection, IsInjective
<1> QED
  BY <1>7

\* No base look is lost when items are added.
LEMMA LooksGrow ==
    ASSUME NEW before, NEW after, before \subseteq after
    PROVE  /\ buildValidBaseLooks(before) \subseteq buildValidBaseLooks(after)
           /\ eligibleProductivityItems(before) \subseteq eligibleProductivityItems(after)
<1>1. \A role : itemsByRole(before, role) \subseteq itemsByRole(after, role)
  BY DEF itemsByRole
<1>2. eligibleProductivityItems(before) \subseteq eligibleProductivityItems(after)
  BY DEF eligibleProductivityItems
<1>3. ASSUME NEW look \in buildValidBaseLooks(before)
      PROVE  look \in buildValidBaseLooks(after)
  <2>0. itemsAreMutuallyCompatible(look)
    BY DEF buildValidBaseLooks
  <2>1. CASE \E t \in itemsByRole(before, "core_top"), b \in itemsByRole(before, "core_bottom"),
               s \in itemsByRole(before, "core_shoes") : look = {t, b, s}
    BY <1>1, <2>0, <2>1 DEF buildValidBaseLooks
  <2>2. CASE \E d \in itemsByRole(before, "core_dress"), s \in itemsByRole(before, "core_shoes") :
               look = {d, s}
    BY <1>1, <2>0, <2>2 DEF buildValidBaseLooks
  <2> QED
    BY <2>1, <2>2 DEF buildValidBaseLooks
<1> QED
  BY <1>2, <1>3

\* Nor does a look have fewer variations.
LEMMA VariationsGrow ==
    ASSUME NEW before, Listed(before), NEW after, Listed(after), before \subseteq after, NEW look
    PROVE  Cardinality(VariationsOf(look, before)) <= Cardinality(VariationsOf(look, after))
<1> DEFINE found(list) == Visit(look, Accessories(list))
           chosen(list) == selectAccessoryVariations(look, Accessories(list))
           looks(variations) == {accessoryVariationKey(v) : v \in variations}
<1>1. found(before) \subseteq found(after)
  <2>1. Accessories(before) \subseteq Accessories(after)
    BY DEF Accessories, itemsByRole
  <2> QED
    BY <2>1 DEF Visit, kSubset
<1>2. ASSUME NEW list, Listed(list)
      PROVE  /\ VariationsOf(look, list) = chosen(list)
             /\ IsFiniteSet(looks(chosen(list)))
             /\ Cardinality(looks(chosen(list))) = Cardinality(VariationsOf(look, list))
             /\ looks(chosen(list)) \subseteq looks(found(list))
             /\ Cardinality(VariationsOf(look, list)) \in 0..3
             /\ Cardinality(VariationsOf(look, list)) < 3 => looks(found(list)) = looks(chosen(list))
  BY <1>2, VariationsTellApart, VariationsOfList
<1>3. looks(found(before)) \subseteq looks(found(after))
  BY <1>1
<1>4. CASE Cardinality(VariationsOf(look, after)) < 3
  <2>1. looks(chosen(before)) \in SUBSET looks(chosen(after))
    <3> HIDE DEF looks, found, chosen
    <3> QED
      BY <1>2, <1>3, <1>4
  <2> HIDE DEF looks, found, chosen
  <2> QED
    BY <1>2, <2>1, FS_Subset
<1>5. CASE ~(Cardinality(VariationsOf(look, after)) < 3)
  <2> HIDE DEF looks, found, chosen
  <2> QED
    BY <1>2, <1>5
<1> QED
  BY <1>4, <1>5

\* Pairs of a member of L and what V holds for it
PairsOf(L, V) == UNION {{<<l, v>> : v \in V[l]} : l \in L}

\* With at least as many for each member there are at least as many pairs.
LEMMA PairsCompare ==
    ASSUME NEW L, IsFiniteSet(L), NEW V, NEW W,
           \A l \in L : /\ IsFiniteSet(V[l]) /\ IsFiniteSet(W[l])
                       /\ Cardinality(V[l]) <= Cardinality(W[l])
    PROVE  /\ IsFiniteSet(PairsOf(L, W))
           /\ Cardinality(PairsOf(L, V)) <= Cardinality(PairsOf(L, W))
<1> DEFINE into == [l \in L |-> CHOOSE f : f \in Injection(V[l], W[l])]
           B == PairsOf(L, V)
           A == PairsOf(L, W)
           map == [p \in B |-> <<p[1], into[p[1]][p[2]]>>]
<1>1. ASSUME NEW l \in L
      PROVE  into[l] \in Injection(V[l], W[l])
  <2>1. \E f : f \in Injection(V[l], W[l])
    BY SmallerInjects
  <2> QED
    BY <2>1
<1>2. /\ \A p \in B : p[1] \in L /\ p[2] \in V[p[1]] /\ p = <<p[1], p[2]>>
      /\ \A l \in L : \A w \in W[l] : <<l, w>> \in A
      /\ \A p \in A : \E l \in L : \E w \in W[l] : p = <<l, w>>
  BY DEF PairsOf
<1>3. IsFiniteSet(A)
  <2> DEFINE values == {W[l] : l \in L}
             g == [l \in L |-> W[l]]
  <2>1. g \in Surjection(L, values)
    BY DEF Surjection
  <2>2. IsFiniteSet(values)
    <3> HIDE DEF g, values
    <3> QED
      BY <2>1, FS_Surjection
  <2>3. IsFiniteSet(UNION values)
    <3>1. \A S \in values : IsFiniteSet(S)
      OBVIOUS
    <3> HIDE DEF values
    <3> QED
      BY <2>2, <3>1, FS_UNION
  <2>4. A \in SUBSET (L \X UNION values)
    <3> SUFFICES ASSUME NEW p \in A
                 PROVE  p \in L \X UNION values
      OBVIOUS
    <3>1. PICK l \in L : \E w \in W[l] : p = <<l, w>>
      BY <1>2
    <3> QED
      BY <3>1
  <2> HIDE DEF A, values
  <2> QED
    BY <2>3, <2>4, FS_Product, FS_Subset
<1>m. \A p \in B : map[p] = <<p[1], into[p[1]][p[2]]>>
  OBVIOUS
<1>d. map \in [B -> {map[p] : p \in B}]
  OBVIOUS
<1> HIDE DEF into, A, B, map
<1>4. ASSUME NEW p \in B
      PROVE  into[p[1]][p[2]] \in W[p[1]] /\ map[p] \in A
  <2>1. into[p[1]][p[2]] \in W[p[1]]
    BY <1>1, <1>2 DEF Injection
  <2> QED
    BY <1>2, <1>m, <2>1
<1>5. ASSUME NEW p \in B, NEW q \in B, map[p] = map[q]
      PROVE  p = q
  <2>1. p[1] = q[1] /\ into[p[1]][p[2]] = into[p[1]][q[2]]
    BY <1>m, <1>5
  <2>2. p[1] \in L /\ p[2] \in V[p[1]] /\ q[2] \in V[p[1]]
    BY <1>2, <2>1
  <2>3. p[2] = q[2]
    BY <1>1, <2>1, <2>2 DEF Injection, IsInjective
  <2> QED
    BY <1>2, <2>1, <2>3
<1>6. map \in Injection(B, A)
  <2>1. map \in [B -> A]
    BY <1>4, <1>d
  <2> QED
    BY <1>5, <2>1 DEF Injection, IsInjective
<1> QED
  BY <1>3, <1>6, FS_Injection DEF A, B

\* A base look counts once more than it has variations.
LEMMA WornOrBare ==
    ASSUME NEW list, Listed(list), NEW look
    PROVE  /\ IsFiniteSet({{}} \cup VariationsOf(look, list))
           /\ Cardinality({{}} \cup VariationsOf(look, list)) = Cardinality(VariationsOf(look, list)) + 1
<1>1. {} \notin VariationsOf(look, list)
  BY VariationsAreAccessories
<1>2. {{}} \cup VariationsOf(look, list) = VariationsOf(look, list) \cup {{}}
  OBVIOUS
<1>3. IsFiniteSet(VariationsOf(look, list))
  BY VariationsAreFinite
<1> QED
  BY <1>1, <1>2, <1>3, FS_AddElement

\* The base looks of a list are finitely many.
LEMMA LooksAreFinite ==
    ASSUME NEW list, IsFiniteSet(list)
    PROVE  IsFiniteSet(buildValidBaseLooks(list))
<1>1. buildValidBaseLooks(list) \in SUBSET (SUBSET list)
  BY DEF buildValidBaseLooks, itemsByRole
<1> QED
  BY <1>1, FS_SUBSET, FS_Subset

\* So as many outfits are counted, or more.
LEMMA CountGrows ==
    ASSUME NEW before, Listed(before), NEW after, Listed(after), before \subseteq after
    PROVE  Cardinality(countedOutfits(before)) <= Cardinality(countedOutfits(after))
<1> DEFINE L(list) == buildValidBaseLooks(eligibleProductivityItems(list))
           V(list) == [look \in L(after) |-> {{}} \cup VariationsOf(look, list)]
<1>1. L(before) \subseteq L(after)
  BY LooksGrow
<1>2. IsFiniteSet(L(before)) /\ IsFiniteSet(L(after))
  <2>1. /\ IsFiniteSet(eligibleProductivityItems(before))
        /\ IsFiniteSet(eligibleProductivityItems(after))
    BY FS_Subset DEF eligibleProductivityItems, Listed
  <2> QED
    BY <2>1, LooksAreFinite
<1>3. \A look \in L(after) :
          /\ IsFiniteSet(V(before)[look]) /\ IsFiniteSet(V(after)[look])
          /\ Cardinality(V(before)[look]) <= Cardinality(V(after)[look])
  <2> SUFFICES ASSUME NEW look \in L(after)
               PROVE  /\ IsFiniteSet(V(before)[look]) /\ IsFiniteSet(V(after)[look])
                      /\ Cardinality(V(before)[look]) <= Cardinality(V(after)[look])
    OBVIOUS
  <2>1. /\ V(before)[look] = {{}} \cup VariationsOf(look, before)
        /\ V(after)[look] = {{}} \cup VariationsOf(look, after)
    OBVIOUS
  <2>2. Cardinality(VariationsOf(look, before)) \in Nat /\ Cardinality(VariationsOf(look, after)) \in Nat
    BY VariationsAreFinite
  <2>3. Cardinality(VariationsOf(look, before)) <= Cardinality(VariationsOf(look, after))
    BY VariationsGrow
  <2>4. /\ IsFiniteSet(V(before)[look]) /\ IsFiniteSet(V(after)[look])
        /\ Cardinality(V(before)[look]) = Cardinality(VariationsOf(look, before)) + 1
        /\ Cardinality(V(after)[look]) = Cardinality(VariationsOf(look, after)) + 1
    BY <2>1, WornOrBare
  <2> HIDE DEF V
  <2> QED
    BY <2>2, <2>3, <2>4
<1>4. /\ countedOutfits(before) = PairsOf(L(before), V(before))
      /\ countedOutfits(after) = PairsOf(L(after), V(after))
  <2>1. ASSUME NEW list \in {before, after}
        PROVE  countedOutfits(list) = PairsOf(L(list), V(list))
    <3>1. \A look \in L(list) : V(list)[look] = {{}} \cup VariationsOf(look, list)
      BY <1>1
    <3>2. \A p : p \in countedOutfits(list) <=>
                     \E look \in L(list) : \E v \in {{}} \cup VariationsOf(look, list) : p = <<look, v>>
      BY CountedShape
    <3> HIDE DEF L, V
    <3>3. \A p : p \in PairsOf(L(list), V(list)) <=>
                     \E look \in L(list) : \E v \in V(list)[look] : p = <<look, v>>
      BY DEF PairsOf
    <3>4. \A p : p \in PairsOf(L(list), V(list)) <=>
                     \E look \in L(list) : \E v \in {{}} \cup VariationsOf(look, list) : p = <<look, v>>
      BY <3>1, <3>3
    <3> QED
      BY <3>2, <3>4, Zenon
  <2> HIDE DEF L, V
  <2> QED
    BY <2>1
<1> HIDE DEF L, V
<1>5. Cardinality(PairsOf(L(before), V(before))) <= Cardinality(PairsOf(L(before), V(after)))
  BY <1>1, <1>2, <1>3, PairsCompare
<1>6. IsFiniteSet(PairsOf(L(after), V(after)))
  BY <1>2, <1>3, PairsCompare
<1>7. PairsOf(L(before), V(after)) \in SUBSET PairsOf(L(after), V(after))
  BY <1>1 DEF PairsOf
<1>8. /\ Cardinality(PairsOf(L(before), V(after))) <= Cardinality(PairsOf(L(after), V(after)))
      /\ IsFiniteSet(PairsOf(L(before), V(after)))
  BY <1>6, <1>7, FS_Subset
<1>9. IsFiniteSet(PairsOf(L(before), V(before)))
  <2>1. \A look \in L(before) :
            IsFiniteSet(V(before)[look]) /\ Cardinality(V(before)[look]) <= Cardinality(V(before)[look])
    BY <1>1, <1>3, FS_CardinalityType
  <2> QED
    BY <1>2, <2>1, PairsCompare
<1> QED
  BY <1>4, <1>5, <1>6, <1>8, <1>9, FS_CardinalityType

\* And as many looks have a layer.
LEMMA CoverageGrows ==
    ASSUME NEW before, NEW after, IsFiniteSet(after), before \subseteq after, NEW role
    PROVE  coveredLookCount(buildValidBaseLooks(before), itemsByRole(before, role))
               <= coveredLookCount(buildValidBaseLooks(after), itemsByRole(after, role))
<1> DEFINE covered(list) == {look \in buildValidBaseLooks(list) :
                                \E layer \in itemsByRole(list, role) :
                                    itemsAreMutuallyCompatible(look \cup {layer})}
<1>1. itemsByRole(before, role) \subseteq itemsByRole(after, role)
  BY DEF itemsByRole
<1>2. covered(before) \in SUBSET covered(after)
  BY <1>1, LooksGrow
<1>3. covered(after) \in SUBSET (SUBSET after)
  BY DEF buildValidBaseLooks, itemsByRole
<1>4. IsFiniteSet(covered(after))
  BY <1>3, FS_SUBSET, FS_Subset
<1> HIDE DEF covered
<1>5. Cardinality(covered(before)) <= Cardinality(covered(after))
  BY <1>2, <1>4, FS_Subset
<1> QED
  BY <1>5 DEF coveredLookCount, covered

-----------------------------------------------------------------------------
(* The guest's evaluator *)

\* What the guest sees has colours, and its accessories are bags.
LEMMA GuestItemShape ==
    ASSUME NEW list, Listed(list)
    PROVE  LET guest == GuestItems(list)
           IN  /\ Listed(guest) /\ guest \subseteq list /\ eligibleProductivityItems(guest) = guest
               /\ \A i \in guest : i.color \in ColorIds /\ i.group \in ColorGroup /\ i.id \in ItemIds
               /\ \A bag \in Accessories(guest) : bag.slot = Bag /\ bag \in guest
               /\ \A a, b \in guest : /\ colorsAreCompatible(a, b) <=> compatible(a, b)
                                      /\ compatible(a, b) => compatible(b, a)
<1> DEFINE guest == GuestItems(list)
<1>1. guest \subseteq list
  BY DEF GuestItems
<1>2. Listed(guest)
  BY <1>1, FS_Subset DEF Listed
<1>3. eligibleProductivityItems(guest) = guest
  BY DEF GuestItems, eligibleProductivityItems, NoRole
<1>4. \A i \in guest : i.color # NoColor /\ i \in ItemRecord
  BY DEF GuestItems, Listed
<1>5. \A i \in guest : i.color \in ColorIds /\ i.group \in ColorGroup /\ i.id \in ItemIds
  BY <1>4 DEF ItemRecord
<1>6. \A bag \in Accessories(guest) : bag.slot = Bag /\ bag \in guest
  BY DEF GuestItems, Accessories, itemsByRole
<1>7. ASSUME NEW a \in guest, NEW b \in guest
      PROVE  /\ colorsAreCompatible(a, b) <=> compatible(a, b)
             /\ compatible(a, b) => compatible(b, a)
  BY <1>4, <1>5, <1>7 DEF colorsAreCompatible, compatible, areColorGroupsCompatible, ColorGroup
<1> HIDE DEF guest
<1> QED
  BY <1>1, <1>2, <1>3, <1>5, <1>6, <1>7 DEF guest

\* Both evaluators find the same base looks.
LEMMA GuestLooks ==
    ASSUME NEW list, Listed(list)
    PROVE  LET guest == GuestItems(list)
           IN  /\ buildValidBaseLooks(eligibleProductivityItems(guest)) = baseLooks(guest)
               /\ \A look \in baseLooks(guest) : look \subseteq guest /\ allCompatible(look)
<1> DEFINE guest == GuestItems(list)
<1>1. /\ eligibleProductivityItems(guest) = guest
      /\ \A a, b \in guest : colorsAreCompatible(a, b) <=> compatible(a, b)
  BY GuestItemShape
<1> HIDE DEF guest
<1>2. \A role : itemsByRole(guest, role) \subseteq guest
  BY DEF itemsByRole
<1>3. \A look \in SUBSET guest : itemsAreMutuallyCompatible(look) <=> allCompatible(look)
  BY <1>1 DEF itemsAreMutuallyCompatible, allCompatible
<1> DEFINE S == itemsByRole(guest, "core_shoes")
           T == itemsByRole(guest, "core_top")
           B == itemsByRole(guest, "core_bottom")
           D == itemsByRole(guest, "core_dress")
<1>4. /\ S \subseteq guest /\ T \subseteq guest /\ B \subseteq guest /\ D \subseteq guest
  BY <1>2
<1>5. /\ buildValidBaseLooks(guest) =
             {look \in {{t, b, s} : t \in T, b \in B, s \in S} \cup {{d, s} : d \in D, s \in S} :
                 itemsAreMutuallyCompatible(look)}
      /\ baseLooks(guest) =
             {look \in {{s, t, b} : s \in S, t \in T, b \in B} : allCompatible(look)}
             \cup {look \in {{d, s} : d \in D, s \in S} : allCompatible(look)}
  BY DEF buildValidBaseLooks, baseLooks
<1> HIDE DEF S, T, B, D
<1>6. {{t, b, s} : t \in T, b \in B, s \in S} = {{s, t, b} : s \in S, t \in T, b \in B}
  <2>1. \A s, t, b : {s, t, b} = {t, b, s}
    OBVIOUS
  <2> QED
    BY <2>1
<1>7. \A look \in {{s, t, b} : s \in S, t \in T, b \in B} \cup {{d, s} : d \in D, s \in S} : look \subseteq guest
  BY <1>4
<1>8. buildValidBaseLooks(guest) = baseLooks(guest)
  <2> DEFINE dressed == {{d, s} : d \in D, s \in S}
             separates == {{s, t, b} : s \in S, t \in T, b \in B}
             fits(looks) == {look \in looks : allCompatible(look)}
  <2>1. /\ buildValidBaseLooks(guest) = {look \in separates \cup dressed : itemsAreMutuallyCompatible(look)}
        /\ baseLooks(guest) = fits(separates) \cup fits(dressed)
    BY <1>5, <1>6
  <2>2. separates \cup dressed \subseteq SUBSET guest
    BY <1>7
  <2> HIDE DEF separates, dressed
  <2> QED
    BY <1>3, <2>1, <2>2
<1>9. \A look \in baseLooks(guest) : look \subseteq guest /\ allCompatible(look)
  BY <1>5, <1>7
<1> QED
  BY <1>1, <1>8, <1>9 DEF guest

\* A bag goes with every item of the look.
Fits(bag, look) == \A c \in look : compatible(c, bag)

\* All bags are in one slot, so a variation of the guest's look is one bag that goes with it.
LEMMA GuestVisit ==
    ASSUME NEW list, Listed(list), NEW look \in baseLooks(GuestItems(list))
    PROVE  LET bags == Accessories(GuestItems(list))
           IN  Visit(look, bags) = {{bag} : bag \in {b \in bags : Fits(b, look)}}
<1> DEFINE guest == GuestItems(list)
           bags == Accessories(guest)
<1>1. /\ Listed(guest) /\ look \subseteq guest /\ allCompatible(look)
      /\ \A bag \in bags : bag.slot = Bag /\ bag \in guest
      /\ \A a, b \in guest : /\ colorsAreCompatible(a, b) <=> compatible(a, b)
                             /\ compatible(a, b) => compatible(b, a)
  BY GuestItemShape, GuestLooks
<1> HIDE DEF guest
<1>2. ASSUME NEW v \in Visit(look, bags)
      PROVE  \E bag \in {b \in bags : Fits(b, look)} : v = {bag}
  <2>1. v # {} /\ v \subseteq bags /\ (\A a, b \in v : a # b => a.slot # b.slot)
        /\ itemsAreMutuallyCompatible(look \cup v)
    <3>1. v # {}
      BY <1>1, <1>2, VisitShape
    <3>2. v \in UNION {kSubset(k, {a \in bags : a.slot # NoSlot}) : k \in 1..A_max}
      BY <1>2 DEF Visit
    <3>3. v \subseteq bags
      BY <3>2 DEF kSubset
    <3> QED
      BY <1>2, <3>1, <3>3 DEF Visit
  <2>2. PICK bag \in v : v = {bag}
    BY <1>1, <2>1
  <2>3. ASSUME NEW c \in look
        PROVE  compatible(c, bag)
    <3>1. CASE c = bag
      BY <3>1 DEF compatible, areColorGroupsCompatible
    <3>2. CASE c # bag
      BY <1>1, <2>1, <2>2, <3>2 DEF itemsAreMutuallyCompatible
    <3> QED
      BY <3>1, <3>2
  <2> QED
    BY <2>1, <2>2, <2>3 DEF Fits
<1>3. ASSUME NEW bag \in bags, Fits(bag, look)
      PROVE  {bag} \in Visit(look, bags)
  <2>s. bag.slot # NoSlot
    BY <1>1, <1>3 DEF Bag, NoSlot
  <2>1. Cardinality({bag}) = 1 /\ bag.slot # NoSlot
    BY <2>s, FS_Singleton
  <2>2. {bag} \in kSubset(1, {a \in bags : a.slot # NoSlot})
    BY <2>1 DEF kSubset
  <2>3. itemsAreMutuallyCompatible(look \cup {bag})
    BY <1>1, <1>3 DEF itemsAreMutuallyCompatible, allCompatible, Fits
  <2>4. {bag} \in UNION {kSubset(k, {a \in bags : a.slot # NoSlot}) : k \in 1..A_max}
    BY <2>2 DEF A_max
  <2> HIDE DEF bags
  <2> QED
    BY <2>3, <2>4 DEF Visit
<1> QED
  BY <1>2, <1>3 DEF guest

\* One bag fits for each colour that is told apart.
LEMMA GuestKeys ==
    ASSUME NEW list, Listed(list), NEW look \in baseLooks(GuestItems(list))
    PROVE  LET bags == Accessories(GuestItems(list))
               keys == {accessoryVariationKey(v) : v \in Visit(look, bags)}
               fitting == FittingBags(look, bags)
           IN  /\ fitting \subseteq bags /\ IsFiniteSet(fitting) /\ IsFiniteSet(keys)
               /\ Cardinality(keys) = Cardinality(fitting)
<1> DEFINE guest == GuestItems(list)
           bags == Accessories(guest)
           fit == {b \in bags : Fits(b, look)}
           keys == {accessoryVariationKey(v) : v \in Visit(look, bags)}
           fitting == FittingBags(look, bags)
           f == [bag \in fitting |-> {Tuple(bag)}]
<1>1. /\ \A bag \in bags : bag \in guest /\ Tuple(bag) = Width + bag.color
                         /\ bag.color \in Nat /\ bag.id \in Nat
      /\ \A a, b \in guest : a.id = b.id => a = b
      /\ IsFiniteSet(guest)
  <2>1. /\ Listed(guest) /\ \A bag \in bags : bag.slot = Bag /\ bag \in guest
        /\ \A i \in guest : i.color \in 1..ColorCount /\ i.id \in 1..ItemCount
    BY GuestItemShape DEF ColorIds, ItemIds
  <2> HIDE DEF guest
  <2>2. \A bag \in bags : accessoryColorId(bag) = bag.color
    BY <2>1 DEF accessoryColorId, NoColor
  <2>3. Width \in Nat
    BY CountsAssumption DEF Width
  <2>4. ASSUME NEW bag \in bags
        PROVE  Tuple(bag) = Width + bag.color /\ bag.color \in Nat /\ bag.id \in Nat
    <3>1. bag.slot = 1 /\ bag.color \in Nat /\ bag.id \in Nat
      BY <2>1, CountsAssumption DEF Bag
    <3>2. Tuple(bag) = Width * bag.slot + bag.color
      BY <2>2 DEF Tuple
    <3> QED
      BY <2>3, <3>1, <3>2
  <2> HIDE DEF bags
  <2> QED
    BY <2>1, <2>4 DEF Listed
<1>w. Width \in Nat
  BY CountsAssumption DEF Width
<1>2. Visit(look, bags) = {{bag} : bag \in fit}
  BY GuestVisit
<1> HIDE DEF guest, bags
<1>3. \A bag : accessoryVariationKey({bag}) = {Tuple(bag)}
  BY DEF accessoryVariationKey
<1>4. keys = {{Tuple(bag)} : bag \in fit}
  <2>1. keys = {accessoryVariationKey(v) : v \in {{bag} : bag \in fit}}
    BY <1>2
  <2>2. keys = {accessoryVariationKey({bag}) : bag \in fit}
    BY <2>1
  <2> QED
    BY <1>3, <2>2
<1>5. fitting = {bag \in fit : ~\E seen \in fit : seen.color = bag.color /\ seen.id < bag.id}
  BY DEF FittingBags, Fits
<1>6. fit \subseteq bags
  OBVIOUS
<1>7. IsFiniteSet(fitting)
  <2>1. fitting \in SUBSET guest
    BY <1>1, <1>5
  <2> QED
    BY <1>1, <2>1, FS_Subset
<1> HIDE DEF keys, fitting, fit
<1>8. f \in [fitting -> keys]
  BY <1>4, <1>5
<1>9. ASSUME NEW a \in fitting, NEW b \in fitting, f[a] = f[b]
      PROVE  a = b
  <2>1. a \in bags /\ b \in bags /\ a \in fit /\ b \in fit
    BY <1>5, <1>6
  <2>2. a.color = b.color
    BY <1>1, <1>w, <1>9, <2>1
  <2>3. ~(a.id < b.id) /\ ~(b.id < a.id)
    BY <1>5, <2>1, <2>2
  <2> QED
    BY <1>1, <2>1, <2>3
<1>10. ASSUME NEW key \in keys
       PROVE  \E bag \in fitting : f[bag] = key
  <2>1. PICK c \in fit : key = {Tuple(c)}
    BY <1>4
  <2> DEFINE alike == {b \in fit : b.color = c.color}
             ids == {b.id : b \in alike}
  <2>2. ids \in SUBSET Nat /\ ids # {}
    BY <1>1, <1>6
  <2>3. PICK i \in ids : \A j \in ids : i <= j
    <3> HIDE DEF ids
    <3> QED
      BY <2>2, LeastNatural
  <2>4. PICK bag \in alike : i = bag.id
    BY <2>3
  <2>5. ASSUME NEW seen \in fit, seen.color = bag.color
        PROVE  ~(seen.id < bag.id)
    <3>1. seen.id \in ids
      BY <2>4, <2>5
    <3>0. bag \in bags /\ seen \in bags
      BY <1>6, <2>4
    <3> HIDE DEF ids, alike
    <3>2. bag.id <= seen.id
      BY <2>3, <2>4, <3>1
    <3>3. bag.id \in Nat /\ seen.id \in Nat
      BY <1>1, <3>0
    <3> QED
      BY <3>2, <3>3
  <2>6. bag \in fitting
    BY <1>5, <2>5
  <2>7. Tuple(bag) = Tuple(c)
    BY <1>1, <1>6
  <2> QED
    BY <2>1, <2>6, <2>7
<1> HIDE DEF f
<1>11. f \in Bijection(fitting, keys)
  BY <1>8, <1>9, <1>10 DEF Bijection, Injection, IsInjective, Surjection
<1>12. IsFiniteSet(keys) /\ Cardinality(keys) = Cardinality(fitting)
  BY <1>7, <1>11, FS_Bijection DEF ExistsBijection
<1>13. fitting \subseteq bags
  BY <1>5, <1>6
<1> QED
  BY <1>7, <1>12, <1>13 DEF guest, bags, keys, fitting

\* The first three of a set
FirstOf(fitting) == {bag \in fitting : Cardinality({b \in fitting : b.id < bag.id}) < A_max}

\* Two different things are two, and three are three.
LEMMA ThreeAreThree ==
    ASSUME NEW x, NEW y, NEW z, y # x, z # x, z # y
    PROVE  /\ IsFiniteSet({x}) /\ Cardinality({x}) = 1
           /\ IsFiniteSet({x, y}) /\ Cardinality({x, y}) = 2
           /\ IsFiniteSet({x, y, z}) /\ Cardinality({x, y, z}) = 3
<1>1. IsFiniteSet({x}) /\ Cardinality({x}) = 1
  BY FS_Singleton
<1>2. /\ IsFiniteSet({x} \cup {y})
      /\ Cardinality({x} \cup {y}) = Cardinality({x}) + 1
  <2>1. y \notin {x}
    OBVIOUS
  <2> QED
    BY <1>1, <2>1, FS_AddElement
<1>3. {x} \cup {y} = {x, y}
  OBVIOUS
<1>4. IsFiniteSet({x, y}) /\ Cardinality({x, y}) = 2
  BY <1>1, <1>2, <1>3
<1>5. /\ IsFiniteSet({x, y} \cup {z})
      /\ Cardinality({x, y} \cup {z}) = Cardinality({x, y}) + 1
  <2>1. z \notin {x, y}
    OBVIOUS
  <2> QED
    BY <1>4, <2>1, FS_AddElement
<1>6. {x, y} \cup {z} = {x, y, z}
  OBVIOUS
<1>7. IsFiniteSet({x, y, z}) /\ Cardinality({x, y, z}) = 3
  <2> DEFINE two == {x, y}
             three == {x, y, z}
  <2>1. Cardinality(three) = Cardinality(two) + 1
    BY <1>5, <1>6, Zenon
  <2>2. Cardinality(two) = 2
    BY <1>4
  <2>3. IsFiniteSet(three)
    BY <1>5, <1>6, Zenon
  <2> HIDE DEF two, three
  <2>4. Cardinality(three) = 3
    BY <2>1, <2>2
  <2> QED
    BY <2>3, <2>4 DEF three
<1> QED
  BY <1>1, <1>4, <1>7

\* They are three, or all when there are fewer.
LEMMA FirstThree ==
    ASSUME NEW F, IsFiniteSet(F), \A b \in F : b.id \in Nat, \A a, b \in F : a.id = b.id => a = b
    PROVE  /\ IsFiniteSet(FirstOf(F))
           /\ Cardinality(FirstOf(F)) = IF Cardinality(F) < 3 THEN Cardinality(F) ELSE 3
<1> DEFINE below(bag) == {b \in F : b.id < bag.id}
<1>0. /\ Cardinality(F) \in Nat
      /\ FirstOf(F) = {bag \in F : Cardinality(below(bag)) < 3}
      /\ IsFiniteSet(FirstOf(F))
  BY FS_CardinalityType, FS_Subset DEF FirstOf, A_max
<1>1. ASSUME NEW R, R \subseteq F, R # {}
      PROVE  \E x \in R : \A y \in R \ {x} : x.id < y.id
  <2> DEFINE ids == {b.id : b \in R}
  <2>1. ids \in SUBSET Nat /\ ids # {}
    BY <1>1
  <2>2. PICK i \in ids : \A j \in ids : i <= j
    <3> HIDE DEF ids
    <3> QED
      BY <2>1, LeastNatural
  <2>3. PICK x \in R : x.id = i
    BY <2>2
  <2>4. ASSUME NEW y \in R \ {x}
        PROVE  x.id < y.id
    <3>1. y.id \in ids /\ y.id # x.id
      BY <1>1, <2>4
    <3> QED
      BY <1>1, <2>1, <2>2, <2>3, <3>1
  <2> QED
    BY <2>4
<1>2. CASE Cardinality(F) <= 3
  <2>1. ASSUME NEW bag \in F
        PROVE  Cardinality(below(bag)) < 3
    <3>1. below(bag) \in SUBSET (F \ {bag})
      OBVIOUS
    <3>2. IsFiniteSet(F \ {bag}) /\ Cardinality(F \ {bag}) = Cardinality(F) - 1
      BY FS_RemoveElement
    <3>3. Cardinality(below(bag)) <= Cardinality(F \ {bag}) /\ IsFiniteSet(below(bag))
      BY <3>1, <3>2, FS_Subset
    <3> HIDE DEF below
    <3> QED
      BY <1>0, <1>2, <3>2, <3>3, FS_CardinalityType
  <2>2. FirstOf(F) = F
    BY <1>0, <2>1
  <2> HIDE DEF below
  <2> QED
    BY <1>0, <1>2, <2>2
<1>3. CASE Cardinality(F) > 3
  <2>1. F # {}
    BY <1>3, FS_EmptySet
  <2>2. PICK x \in F : \A w \in F \ {x} : x.id < w.id
    BY <1>1, <2>1
  <2>3. IsFiniteSet(F \ {x}) /\ Cardinality(F \ {x}) = Cardinality(F) - 1
    BY FS_RemoveElement
  <2>4. F \ {x} # {}
    BY <1>0, <1>3, <2>3, FS_EmptySet
  <2>5. PICK y \in F \ {x} : \A w \in (F \ {x}) \ {y} : y.id < w.id
    BY <1>1, <2>4
  <2>6. /\ IsFiniteSet((F \ {x}) \ {y})
        /\ Cardinality((F \ {x}) \ {y}) = Cardinality(F) - 2
    <3> DEFINE R == F \ {x}
    <3>1. IsFiniteSet(R) /\ Cardinality(R) = Cardinality(F) - 1 /\ y \in R
      BY <2>3, <2>5
    <3> HIDE DEF R
    <3>2. IsFiniteSet(R \ {y}) /\ Cardinality(R \ {y}) = Cardinality(R) - 1
      BY <3>1, FS_RemoveElement
    <3> HIDE DEF below
    <3> QED
      BY <1>0, <3>1, <3>2 DEF R
  <2>7. (F \ {x}) \ {y} # {}
    BY <1>0, <1>3, <2>6, FS_EmptySet
  <2>8. PICK z \in (F \ {x}) \ {y} : \A w \in ((F \ {x}) \ {y}) \ {z} : z.id < w.id
    BY <1>1, <2>7
  <2>d. /\ IsFiniteSet({x}) /\ Cardinality({x}) = 1
        /\ IsFiniteSet({x, y}) /\ Cardinality({x, y}) = 2
        /\ IsFiniteSet({x, y, z}) /\ Cardinality({x, y, z}) = 3
    BY <2>5, <2>8, ThreeAreThree
  <2>e. x \in F /\ y \in F /\ z \in F /\ x.id < y.id /\ y.id < z.id
    BY <2>2, <2>5, <2>8
  <2>9. below(x) = {} /\ below(y) = {x} /\ below(z) = {x, y}
    <3>1. \A b \in F : b \in {x, y, z} \/ z.id < b.id
      BY <2>8
    <3> QED
      BY <2>e, <3>1
  <2>10. ASSUME NEW bag \in F, bag \notin {x, y, z}
         PROVE  ~(Cardinality(below(bag)) < 3)
    <3>1. z.id < bag.id
      BY <2>8, <2>10
    <3>2. {x, y, z} \in SUBSET below(bag)
      BY <2>e, <3>1
    <3>3. IsFiniteSet(below(bag))
      BY FS_Subset
    <3> HIDE DEF below
    <3>4. Cardinality({x, y, z}) <= Cardinality(below(bag)) /\ Cardinality(below(bag)) \in Nat
      BY <3>2, <3>3, FS_Subset, FS_CardinalityType
    <3> QED
      BY <2>d, <3>4
  <2>11. FirstOf(F) = {x, y, z}
    <3> HIDE DEF below
    <3>1. /\ Cardinality(below(x)) < 3 /\ Cardinality(below(y)) < 3 /\ Cardinality(below(z)) < 3
      BY <2>9, <2>d, FS_EmptySet
    <3> QED
      BY <1>0, <2>e, <2>10, <3>1
  <2> HIDE DEF below
  <2> QED
    BY <1>0, <1>3, <2>11, <2>d
<1> QED
  BY <1>0, <1>2, <1>3

\* A look has as many bags for the guest as it has variations on the capsule page.
LEMMA GuestVariations ==
    ASSUME NEW list, Listed(list), NEW look \in baseLooks(GuestItems(list))
    PROVE  LET guest == GuestItems(list)
               first == FirstOf(FittingBags(look, Accessories(guest)))
           IN  IsFiniteSet(first) /\ Cardinality(first) = Cardinality(VariationsOf(look, guest))
<1> DEFINE guest == GuestItems(list)
           bags == Accessories(guest)
           fitting == FittingBags(look, bags)
           found == Visit(look, bags)
           chosen == selectAccessoryVariations(look, bags)
           looks(variations) == {accessoryVariationKey(v) : v \in variations}
<1>1. /\ fitting \subseteq bags /\ IsFiniteSet(fitting) /\ IsFiniteSet(looks(found))
      /\ Cardinality(looks(found)) = Cardinality(fitting)
  BY GuestKeys
<1>2. Listed(guest) /\ bags \subseteq guest /\ \A i \in guest : i.id \in Nat
  BY GuestItemShape DEF ItemIds
<1> HIDE DEF guest
<1>3. /\ IsFiniteSet(looks(chosen)) /\ Cardinality(looks(chosen)) = Cardinality(chosen)
      /\ looks(chosen) \subseteq looks(found)
      /\ Cardinality(chosen) \in 0..3
      /\ Cardinality(chosen) < 3 => looks(found) = looks(chosen)
  BY <1>2, VariationsTellApart
<1>4. VariationsOf(look, guest) = chosen
  BY VariationsOfList
<1> HIDE DEF bags, fitting, found, chosen, looks
<1>5. Cardinality(looks(chosen)) <= Cardinality(looks(found))
  BY <1>1, <1>3, FS_Subset
<1>6. /\ IsFiniteSet(FirstOf(fitting))
      /\ Cardinality(FirstOf(fitting)) = IF Cardinality(fitting) < 3 THEN Cardinality(fitting) ELSE 3
  <2>1. (\A b \in fitting : b.id \in Nat) /\ (\A a, b \in fitting : a.id = b.id => a = b)
    BY <1>1, <1>2 DEF Listed
  <2> QED
    BY <1>1, <2>1, FirstThree
<1>7. Cardinality(fitting) \in Nat
  BY <1>1, FS_CardinalityType
<1>8. Cardinality(FirstOf(fitting)) = Cardinality(chosen)
  BY <1>1, <1>3, <1>5, <1>6, <1>7
<1> QED
  BY <1>4, <1>6, <1>8 DEF guest, bags, fitting

\* Each look of the guest counts once, and once with each of its first bags.
LEMMA GuestCount ==
    ASSUME NEW list, Listed(list)
    PROVE  LET guest == GuestItems(list)
           IN  /\ evaluate(guest).count = Cardinality(countedOutfits(guest))
               /\ IsFiniteSet(baseLooks(guest))
               /\ evaluate(guest).count \in Nat
               /\ evaluate(guest).count = 0 <=> baseLooks(guest) = {}
<1> DEFINE guest == GuestItems(list)
           L == baseLooks(guest)
           first == [look \in L |-> FirstOf(FittingBags(look, Accessories(guest)))]
           dressed == [look \in L |-> VariationsOf(look, guest)]
           bare == {<<look, {}>> : look \in L}
           f == [look \in L |-> <<look, {}>>]
<1>1. Listed(guest) /\ buildValidBaseLooks(eligibleProductivityItems(guest)) = L /\ eligibleProductivityItems(guest) = guest
  BY GuestItemShape, GuestLooks
<1>2. IsFiniteSet(L)
  BY <1>1, LooksAreFinite DEF Listed
<1>3. /\ evaluate(guest).count = Cardinality(L) + Cardinality(PairsOf(L, first))
  <2>1. PairsOf(L, first) = UNION {{<<look, bag>> : bag \in first[look]} : look \in L}
    BY DEF PairsOf
  <2>2. PairsOf(L, first) =
            UNION {{<<look, bag>> : bag \in FirstOf(FittingBags(look, Accessories(guest)))} : look \in L}
    BY <2>1
  <2> QED
    BY <2>2 DEF evaluate, FirstOf, Accessories
<1>4. \A look \in L : /\ IsFiniteSet(first[look]) /\ IsFiniteSet(dressed[look])
                     /\ Cardinality(first[look]) = Cardinality(dressed[look])
                     /\ Cardinality(dressed[look]) \in Nat
  <2> SUFFICES ASSUME NEW look \in L
               PROVE  /\ IsFiniteSet(first[look]) /\ IsFiniteSet(dressed[look])
                      /\ Cardinality(first[look]) = Cardinality(dressed[look])
                      /\ Cardinality(dressed[look]) \in Nat
    OBVIOUS
  <2>1. /\ first[look] = FirstOf(FittingBags(look, Accessories(guest)))
        /\ dressed[look] = VariationsOf(look, guest)
    OBVIOUS
  <2>2. IsFiniteSet(first[look]) /\ Cardinality(first[look]) = Cardinality(dressed[look])
    BY <2>1, GuestVariations
  <2>3. IsFiniteSet(dressed[look])
    BY <1>1, <2>1, VariationsAreFinite
  <2> QED
    BY <2>2, <2>3, FS_CardinalityType
<1>5. countedOutfits(guest) = bare \cup PairsOf(L, dressed) /\ bare \cap PairsOf(L, dressed) = {}
  <2>1. \A look \in L : dressed[look] = VariationsOf(look, guest) /\ {} \notin dressed[look]
    BY VariationsAreAccessories
  <2>2. \A p : p \in countedOutfits(guest) <=>
                   \E look \in L : \E v \in {{}} \cup VariationsOf(look, guest) : p = <<look, v>>
    BY <1>1, CountedShape
  <2> HIDE DEF L, dressed
  <2>3. \A p : p \in PairsOf(L, dressed) <=> \E look \in L : \E v \in dressed[look] : p = <<look, v>>
    BY DEF PairsOf
  <2>4. \A p : p \in bare <=> \E look \in L : p = <<look, {}>>
    OBVIOUS
  <2> HIDE DEF bare
  <2>5. \A p : p \in countedOutfits(guest) <=> p \in bare \/ p \in PairsOf(L, dressed)
    BY <2>1, <2>2, <2>3, <2>4
  <2>6. ASSUME NEW p, p \in bare, p \in PairsOf(L, dressed)
        PROVE  FALSE
    <3>1. p[2] = {}
      BY <2>4, <2>6
    <3>2. PICK look \in L : \E v \in dressed[look] : p = <<look, v>>
      BY <2>3, <2>6
    <3>3. p[2] \in dressed[look]
      BY <3>2
    <3> QED
      BY <2>1, <3>1, <3>3
  <2> QED
    BY <2>5, <2>6
<1>6. f \in Bijection(L, bare)
  <2> HIDE DEF L
  <2> QED
    BY DEF Bijection, Injection, IsInjective, Surjection
<1> HIDE DEF guest, L, first, dressed, bare, f
<1>7. IsFiniteSet(bare) /\ Cardinality(bare) = Cardinality(L)
  BY <1>2, <1>6, FS_Bijection DEF ExistsBijection
<1>8. /\ IsFiniteSet(PairsOf(L, first)) /\ IsFiniteSet(PairsOf(L, dressed))
      /\ Cardinality(PairsOf(L, first)) = Cardinality(PairsOf(L, dressed))
      /\ Cardinality(PairsOf(L, first)) \in Nat
  <2>1. /\ IsFiniteSet(PairsOf(L, first)) /\ IsFiniteSet(PairsOf(L, dressed))
        /\ Cardinality(PairsOf(L, first)) <= Cardinality(PairsOf(L, dressed))
        /\ Cardinality(PairsOf(L, dressed)) <= Cardinality(PairsOf(L, first))
    <3>1. /\ \A look \in L : Cardinality(first[look]) <= Cardinality(dressed[look])
          /\ \A look \in L : Cardinality(dressed[look]) <= Cardinality(first[look])
      BY <1>4
    <3> QED
      BY <1>2, <1>4, <3>1, PairsCompare
  <2>2. Cardinality(PairsOf(L, first)) \in Nat /\ Cardinality(PairsOf(L, dressed)) \in Nat
    BY <2>1, FS_CardinalityType
  <2> QED
    BY <2>1, <2>2
<1>9. Cardinality(countedOutfits(guest)) = Cardinality(L) + Cardinality(PairsOf(L, first))
  <2>1. Cardinality(bare \cup PairsOf(L, dressed)) =
            Cardinality(bare) + Cardinality(PairsOf(L, dressed)) - Cardinality(bare \cap PairsOf(L, dressed))
    BY <1>7, <1>8, FS_Union
  <2>2. Cardinality(bare \cap PairsOf(L, dressed)) = 0
    BY <1>5, FS_EmptySet
  <2>3. Cardinality(L) \in Nat
    BY <1>2, FS_CardinalityType
  <2> QED
    BY <1>5, <1>7, <1>8, <2>1, <2>2, <2>3
<1>10. /\ evaluate(guest).count \in Nat
       /\ evaluate(guest).count = 0 <=> L = {}
  <2>1. Cardinality(L) \in Nat /\ (Cardinality(L) = 0 <=> L = {})
    BY <1>2, FS_CardinalityType, FS_EmptySet
  <2>2. L = {} => Cardinality(PairsOf(L, first)) = 0
    <3>1. L = {} => PairsOf(L, first) = {}
      BY DEF PairsOf
    <3> QED
      BY <3>1, FS_EmptySet
  <2> QED
    BY <1>3, <1>8, <2>1, <2>2
<1> QED
  BY <1>2, <1>3, <1>9, <1>10 DEF guest, L

\* A guest has looks exactly when no role is missing, unless two items clash.
LEMMA GuestIsTold ==
    ASSUME NEW list, Listed(list)
    PROVE  LET guest == GuestItems(list)
           IN  /\ baseLooks(guest) = {} => missingRoles(guest) # {} \/ evaluate(guest).conflicts # {}
               /\ baseLooks(guest) # {} => missingRoles(guest) = {}
<1> DEFINE guest == GuestItems(list)
           S == itemsByRole(guest, "core_shoes")
           T == itemsByRole(guest, "core_top")
           B == itemsByRole(guest, "core_bottom")
           D == itemsByRole(guest, "core_dress")
           conflicts == {pair \in kSubset(2, guest) :
                            \A x, y \in pair : x # y => wearableTogether(x, y) /\ ~compatible(x, y)}
           complete == S # {} /\ (D # {} \/ (T # {} /\ B # {}))
<1>1. \A a, b \in guest : compatible(a, b) => compatible(b, a)
  BY GuestItemShape
<1>2. evaluate(guest).conflicts = conflicts
  BY DEF evaluate
<1> HIDE DEF guest
<1>3. missingRoles(guest) = {} <=> complete
  <2>1. missingRoles(guest) = IF complete THEN {}
                              ELSE {r \in {"core_top", "core_bottom"} : D = {} /\ itemsByRole(guest, r) = {}}
                                   \cup {r \in {"core_shoes"} : itemsByRole(guest, r) = {}}
    BY DEF missingRoles
  <2>2. CASE S = {}
    <3>1. "core_shoes" \in missingRoles(guest)
      BY <2>1, <2>2
    <3> QED
      BY <2>2, <3>1
  <2>3. CASE S # {} /\ D = {} /\ T = {}
    <3>1. "core_top" \in missingRoles(guest)
      BY <2>1, <2>3
    <3> QED
      BY <2>3, <3>1
  <2>4. CASE S # {} /\ D = {} /\ B = {}
    <3>1. "core_bottom" \in missingRoles(guest)
      BY <2>1, <2>4
    <3> QED
      BY <2>4, <3>1
  <2>5. CASE complete
    BY <2>1, <2>5
  <2> QED
    BY <2>2, <2>3, <2>4, <2>5
<1>4. baseLooks(guest) =
          {look \in {{s, t, b} : s \in S, t \in T, b \in B} : allCompatible(look)}
          \cup {look \in {{d, s} : d \in D, s \in S} : allCompatible(look)}
  BY DEF baseLooks
<1>5. ASSUME NEW x \in guest, NEW y \in guest, wearableTogether(x, y), wearableTogether(y, x), conflicts = {}
      PROVE  compatible(x, y) /\ compatible(y, x)
  <2>1. x # y
    BY <1>5 DEF wearableTogether
  <2>2. Cardinality({x, y}) = 2
    <3>1. IsFiniteSet({x}) /\ Cardinality({x}) = 1
      BY FS_Singleton
    <3>2. ASSUME NEW R, IsFiniteSet(R), NEW b, b \notin R
          PROVE  Cardinality(R \cup {b}) = Cardinality(R) + 1
      BY <3>2, FS_AddElement
    <3>3. Cardinality({x} \cup {y}) = Cardinality({x}) + 1
      BY <2>1, <3>1, <3>2
    <3>4. {x} \cup {y} = {x, y}
      OBVIOUS
    <3> QED
      BY <3>1, <3>3, <3>4
  <2>3. {x, y} \in kSubset(2, guest)
    BY <2>2 DEF kSubset
  <2>4. compatible(x, y) \/ compatible(y, x)
    BY <1>5, <2>3
  <2> QED
    BY <1>1, <2>4
<1>6. ASSUME complete, conflicts = {}
      PROVE  baseLooks(guest) # {}
  <2>1. /\ \A s \in S : s \in guest /\ s.role = "core_shoes"
        /\ \A t \in T : t \in guest /\ t.role = "core_top"
        /\ \A b \in B : b \in guest /\ b.role = "core_bottom"
        /\ \A d \in D : d \in guest /\ d.role = "core_dress"
    BY DEF itemsByRole
  <2> HIDE DEF S, T, B, D, conflicts
  <2>2. CASE D # {}
    <3>1. PICK d \in D, s \in S : TRUE
      BY <1>6, <2>2
    <3>2. wearableTogether(d, s) /\ wearableTogether(s, d)
      BY <2>1, <3>1 DEF wearableTogether
    <3>3. compatible(d, s) /\ compatible(s, d)
      BY <1>5, <1>6, <2>1, <3>2
    <3>4. allCompatible({d, s})
      BY <3>3 DEF allCompatible
    <3> QED
      BY <1>4, <3>4
  <2>3. CASE T # {} /\ B # {}
    <3>1. PICK s \in S, t \in T, b \in B : TRUE
      BY <1>6, <2>3
    <3>2. /\ wearableTogether(t, s) /\ wearableTogether(s, t)
          /\ wearableTogether(b, s) /\ wearableTogether(s, b)
          /\ wearableTogether(t, b) /\ wearableTogether(b, t)
      BY <2>1, <3>1 DEF wearableTogether
    <3>3. /\ compatible(t, s) /\ compatible(s, t) /\ compatible(b, s) /\ compatible(s, b)
          /\ compatible(t, b) /\ compatible(b, t)
      BY <1>5, <1>6, <2>1, <3>2
    <3>4. allCompatible({s, t, b})
      BY <3>3 DEF allCompatible
    <3> QED
      BY <1>4, <3>4
  <2> QED
    BY <1>6, <2>2, <2>3
<1>7. baseLooks(guest) # {} => complete
  <2> HIDE DEF S, T, B, D
  <2> QED
    BY <1>4
<1> HIDE DEF complete, conflicts
<1> QED
  BY <1>2, <1>3, <1>6, <1>7 DEF guest
=============================================================================
