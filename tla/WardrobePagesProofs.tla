------------------------ MODULE WardrobePagesProofs ------------------------
(***************************************************************************)
(* The wardrobe pages, for wardrobes of any size and any number of calls   *)
(* under way.  While a call for an item is under way nothing else moves    *)
(* that item, so that the entry as it was clicked, from which the counters *)
(* are kept, is still the entry of the list when the answer comes.         *)
(***************************************************************************)
EXTENDS WardrobePages, FiniteSetTheorems, TLAPS

USE GuestAssumption, WardrobesAssumption

Navs == [myItems : Nat, uncapsulated : Nat, favorites : Nat, forSale : Nat, forRepair : Nat]

WardrobeOK(w) ==
    /\ DOMAIN w \subseteq Items /\ IsFiniteSet(DOMAIN w)
    /\ \A i \in DOMAIN w : /\ w[i] \in Entries
                           /\ w[i].inCapsule => w[i].status = "active" /\ i \notin Guest

\* The items a page is about.
Belongs(p, e) ==
    /\ p = "favorites" => e.favorite
    /\ p = "for-sale" => e.status = "for_sale"
    /\ p = "for-repair" => e.status = "for_repair"
    /\ p = "uncapsulated" => e.status = "uncapsulated"

\* The five counters.
StatisticItems(w) == {i \in DOMAIN w : isWardrobeStatisticItem(w[i].status)}
UncapsulatedItems(w) == {i \in DOMAIN w : w[i].status = "uncapsulated"}
FavoriteItems(w) == {i \in DOMAIN w : w[i].favorite}
ItemsForSale(w) == {i \in DOMAIN w : w[i].status = "for_sale"}
ItemsForRepair(w) == {i \in DOMAIN w : w[i].status = "for_repair"}

\* Every counter of the navigation is right, but for the two that the page itself replaces.
NavOK(n, p, w) ==
    /\ n \in Navs
    /\ p # "my-items" =>
          /\ n.myItems = Cardinality(StatisticItems(w))
          /\ n.uncapsulated = Cardinality(UncapsulatedItems(w))
          /\ p # "favorites" => n.favorites = Cardinality(FavoriteItems(w))
          /\ n.forSale = Cardinality(ItemsForSale(w))
          /\ n.forRepair = Cardinality(ItemsForRepair(w))

\* What a page lists.
ListOf(p, w) == IF p = "my-items" THEN w ELSE [i \in {j \in DOMAIN w : Belongs(p, w[j])} |-> w[i]]

\* The page shows what it should of the wardrobe.
PageOK(l, n, w) == WardrobeOK(w) /\ l = ListOf(page, w) /\ NavOK(n, page, w)

\* What the button of a patch does to the item it was offered for.
Wants(i, patch) ==
    \/ patch = [field |-> "favorite", value |-> ~items[i].favorite]
    \/ patch.field = "status" /\ patch.value \in MovesOn(page)

\* A call for an item of the list, as it still is, and for no item of another call.
CallOK(r) == calls[r] # None =>
    LET c == calls[r] IN
    /\ c.item \in DOMAIN items /\ c.entry = items[c.item] /\ Wants(c.item, c.patch)
    /\ \A s \in Requests \ {r} : calls[s] # None => calls[s].item # c.item

\* A guest item nobody else has changed is stored as the page shows it, or as the call that was
\* carried out will make the page show it.
StoredOK == \A i \in (Guest \cap DOMAIN row) \ disturbed :
    /\ i \in DOMAIN whole
    /\ ~Pending(i) => whole[i] = row[i]
    /\ \A r \in Requests : calls[r] # None /\ calls[r].item = i =>
          row[i] = IF calls[r].stored THEN Promised(whole[i], calls[r].patch) ELSE whole[i]

IInv ==
    /\ page \in Pages /\ WardrobeOK(row) /\ PageOK(items, nav, whole)
    /\ calls \in [Requests -> Mutations \cup {None}]
    /\ \A r \in Requests : CallOK(r)
    /\ StoredOK

-----------------------------------------------------------------------------
(* Counting *)

\* A set that differs from another in one element at most.
LEMMA CardinalityChanges ==
    ASSUME NEW S, NEW T, NEW i, IsFiniteSet(S), S \ {i} = T \ {i}
    PROVE  /\ IsFiniteSet(T) /\ Cardinality(S) \in Nat
           /\ i \in S => Cardinality(S) # 0
           /\ Cardinality(T) = CASE i \in S /\ i \notin T -> Cardinality(S) - 1
                                 [] i \notin S /\ i \in T -> Cardinality(S) + 1
                                 [] OTHER -> Cardinality(S)
<1>1. Cardinality(S) \in Nat /\ (i \in S => Cardinality(S) # 0)
  BY FS_CardinalityType, FS_EmptySet
<1>2. CASE i \in S <=> i \in T
  <2>1. S = T
    BY <1>2
  <2> QED
    BY <1>1, <1>2, <2>1
<1>3. CASE i \in S /\ i \notin T
  <2>1. T = S \ {i}
    BY <1>3
  <2> QED
    BY <1>1, <1>3, <2>1, FS_RemoveElement
<1>4. CASE i \notin S /\ i \in T
  <2>1. T = S \cup {i}
    BY <1>4
  <2> QED
    BY <1>1, <1>4, <2>1, FS_AddElement
<1> QED
  BY <1>2, <1>3, <1>4

\* The counters of the server are the five cardinalities.
LEMMA CountsAre ==
    ASSUME NEW w
    PROVE  buildCounts(w) = [myItems      |-> Cardinality(StatisticItems(w)),
                             uncapsulated |-> Cardinality(UncapsulatedItems(w)),
                             favorites    |-> Cardinality(FavoriteItems(w)),
                             forSale      |-> Cardinality(ItemsForSale(w)),
                             forRepair    |-> Cardinality(ItemsForRepair(w))]
  BY DEF buildCounts, CountOf, StatisticItems, UncapsulatedItems, FavoriteItems, ItemsForSale, ItemsForRepair

\* The five sets of a wardrobe are finite.
LEMMA SetsAreFinite ==
    ASSUME NEW w, WardrobeOK(w)
    PROVE  /\ IsFiniteSet(StatisticItems(w)) /\ IsFiniteSet(UncapsulatedItems(w))
           /\ IsFiniteSet(FavoriteItems(w)) /\ IsFiniteSet(ItemsForSale(w)) /\ IsFiniteSet(ItemsForRepair(w))
<1>1. \A S : S \subseteq DOMAIN w => IsFiniteSet(S)
  BY FS_Subset DEF WardrobeOK
<1> QED
  BY <1>1 DEF StatisticItems, UncapsulatedItems, FavoriteItems, ItemsForSale, ItemsForRepair

\* What the server renders agrees with the wardrobe it is rendered from.
LEMMA SnapshotAgrees ==
    ASSUME NEW w, WardrobeOK(w), NEW p \in Pages
    PROVE  Snapshot(p, w).items = ListOf(p, w) /\ NavOK(Snapshot(p, w).nav, p, w)
<1> DEFINE C == buildCounts(w)
<1>1. C \in Navs
  BY CountsAre, SetsAreFinite, FS_CardinalityType DEF Navs
<1>2. CASE p = "my-items"
  <2>1. Snapshot(p, w) = [items |-> w, nav |-> C]
    BY <1>2 DEF Snapshot, buildMyItemsSnapshot
  <2> HIDE DEF C
  <2> QED
    BY <1>1, <1>2, <2>1 DEF ListOf, NavOK, Belongs
<1>3. CASE p = "favorites"
  BY <1>1, <1>3, CountsAre, SetsAreFinite, FS_CardinalityType
     DEF Snapshot, buildFavoritesSnapshot, Filtered, Restrict, Length, ListOf, NavOK, Belongs, Navs, FavoriteItems
<1>4. CASE p = "for-sale"
  BY <1>1, <1>4, CountsAre, SetsAreFinite, FS_CardinalityType
     DEF Snapshot, buildForSaleSnapshot, Filtered, Restrict, Length, ListOf, NavOK, Belongs, Navs, ItemsForSale
<1>5. CASE p = "for-repair"
  BY <1>1, <1>5, CountsAre, SetsAreFinite, FS_CardinalityType
     DEF Snapshot, buildForRepairSnapshot, Filtered, Restrict, Length, ListOf, NavOK, Belongs, Navs, ItemsForRepair
<1>6. CASE p = "uncapsulated"
  <2>1. {i \in DOMAIN w : isUncapsulatedItem(w[i])} = UncapsulatedItems(w)
    <3>1. \A i \in DOMAIN w : w[i].status = "uncapsulated" => ~w[i].inCapsule
      <4> SUFFICES ASSUME NEW i \in DOMAIN w, w[i].inCapsule
                   PROVE  w[i].status # "uncapsulated"
        OBVIOUS
      <4>1. w[i].status = "active"
        BY Zenon DEF WardrobeOK
      <4> QED
        BY <4>1
    <3> QED
      BY <3>1, Zenon DEF isUncapsulatedItem, UncapsulatedItems
  <2> QED
    BY <1>1, <1>6, <2>1, CountsAre, SetsAreFinite, FS_CardinalityType
       DEF Snapshot, buildUncapsulatedSnapshot, Filtered, Restrict, Length, ListOf, NavOK, Belongs, Navs, UncapsulatedItems
<1> QED
  BY <1>2, <1>3, <1>4, <1>5, <1>6 DEF Pages

-----------------------------------------------------------------------------
(* A change of one item *)

Change(was, is) == CASE was /\ ~is -> -1 [] ~was /\ is -> 1 [] OTHER -> 0

\* The counters of wardrobe u are those of w but for what became of item i.
Differs(w, u, i) ==
    /\ Cardinality(StatisticItems(u)) = Cardinality(StatisticItems(w))
          + Change(i \in DOMAIN w /\ isWardrobeStatisticItem(w[i].status), i \in DOMAIN u /\ isWardrobeStatisticItem(u[i].status))
    /\ Cardinality(UncapsulatedItems(u)) = Cardinality(UncapsulatedItems(w))
          + Change(i \in DOMAIN w /\ w[i].status = "uncapsulated", i \in DOMAIN u /\ u[i].status = "uncapsulated")
    /\ Cardinality(FavoriteItems(u)) = Cardinality(FavoriteItems(w))
          + Change(i \in DOMAIN w /\ w[i].favorite, i \in DOMAIN u /\ u[i].favorite)
    /\ Cardinality(ItemsForSale(u)) = Cardinality(ItemsForSale(w))
          + Change(i \in DOMAIN w /\ w[i].status = "for_sale", i \in DOMAIN u /\ u[i].status = "for_sale")
    /\ Cardinality(ItemsForRepair(u)) = Cardinality(ItemsForRepair(w))
          + Change(i \in DOMAIN w /\ w[i].status = "for_repair", i \in DOMAIN u /\ u[i].status = "for_repair")

\* An entry is counted where it belongs, and all counters are numbers.
LEMMA EntryIsCounted ==
    ASSUME NEW w, WardrobeOK(w)
    PROVE  /\ Cardinality(StatisticItems(w)) \in Nat /\ Cardinality(UncapsulatedItems(w)) \in Nat
           /\ Cardinality(FavoriteItems(w)) \in Nat /\ Cardinality(ItemsForSale(w)) \in Nat
           /\ Cardinality(ItemsForRepair(w)) \in Nat
           /\ \A i \in DOMAIN w :
                 /\ isWardrobeStatisticItem(w[i].status) => Cardinality(StatisticItems(w)) # 0
                 /\ w[i].status = "uncapsulated" => Cardinality(UncapsulatedItems(w)) # 0
                 /\ w[i].favorite => Cardinality(FavoriteItems(w)) # 0
                 /\ w[i].status = "for_sale" => Cardinality(ItemsForSale(w)) # 0
                 /\ w[i].status = "for_repair" => Cardinality(ItemsForRepair(w)) # 0
<1>1. \A S : IsFiniteSet(S) => Cardinality(S) \in Nat /\ (Cardinality(S) # 0 <=> S # {})
  BY FS_CardinalityType, FS_EmptySet
<1>2. /\ IsFiniteSet(StatisticItems(w)) /\ IsFiniteSet(UncapsulatedItems(w))
      /\ IsFiniteSet(FavoriteItems(w)) /\ IsFiniteSet(ItemsForSale(w)) /\ IsFiniteSet(ItemsForRepair(w))
  BY SetsAreFinite
<1>3. \A i \in DOMAIN w :
          /\ isWardrobeStatisticItem(w[i].status) => StatisticItems(w) # {}
          /\ w[i].status = "uncapsulated" => UncapsulatedItems(w) # {}
          /\ w[i].favorite => FavoriteItems(w) # {}
          /\ w[i].status = "for_sale" => ItemsForSale(w) # {}
          /\ w[i].status = "for_repair" => ItemsForRepair(w) # {}
  BY Zenon DEF StatisticItems, UncapsulatedItems, FavoriteItems, ItemsForSale, ItemsForRepair
<1> QED
  BY <1>1, <1>2, <1>3

\* A set that changes in one element, by what becomes of that element.
LEMMA ChangeCounts ==
    ASSUME NEW S, NEW T, NEW i, IsFiniteSet(S), S \ {i} = T \ {i}, NEW was \in BOOLEAN, NEW is \in BOOLEAN,
           was <=> i \in S, is <=> i \in T
    PROVE  Cardinality(T) = Cardinality(S) + Change(was, is)
  BY CardinalityChanges DEF Change

\* The counters of two wardrobes that differ in one item.
LEMMA CountersFollow ==
    ASSUME NEW w, NEW u, NEW i, WardrobeOK(w), DOMAIN u \ {i} = DOMAIN w \ {i},
           \A j \in DOMAIN w \ {i} : u[j] = w[j]
    PROVE  Differs(w, u, i)
<1>1. /\ IsFiniteSet(StatisticItems(w)) /\ IsFiniteSet(UncapsulatedItems(w))
      /\ IsFiniteSet(FavoriteItems(w)) /\ IsFiniteSet(ItemsForSale(w)) /\ IsFiniteSet(ItemsForRepair(w))
  BY SetsAreFinite
<1>2. Cardinality(StatisticItems(u)) = Cardinality(StatisticItems(w))
         + Change(i \in DOMAIN w /\ isWardrobeStatisticItem(w[i].status), i \in DOMAIN u /\ isWardrobeStatisticItem(u[i].status))
  <2>1. StatisticItems(w) \ {i} = StatisticItems(u) \ {i}
    BY DEF StatisticItems
  <2>2. /\ (i \in DOMAIN w /\ isWardrobeStatisticItem(w[i].status)) <=> i \in StatisticItems(w)
        /\ (i \in DOMAIN u /\ isWardrobeStatisticItem(u[i].status)) <=> i \in StatisticItems(u)
    BY Zenon DEF StatisticItems
  <2>3. (i \in DOMAIN w /\ isWardrobeStatisticItem(w[i].status)) \in BOOLEAN /\ (i \in DOMAIN u /\ isWardrobeStatisticItem(u[i].status)) \in BOOLEAN
    OBVIOUS
  <2> QED
    BY <1>1, <2>1, <2>2, <2>3, ChangeCounts
<1>3. Cardinality(UncapsulatedItems(u)) = Cardinality(UncapsulatedItems(w))
         + Change(i \in DOMAIN w /\ w[i].status = "uncapsulated", i \in DOMAIN u /\ u[i].status = "uncapsulated")
  <2>1. UncapsulatedItems(w) \ {i} = UncapsulatedItems(u) \ {i}
    BY DEF UncapsulatedItems
  <2>2. /\ (i \in DOMAIN w /\ w[i].status = "uncapsulated") <=> i \in UncapsulatedItems(w)
        /\ (i \in DOMAIN u /\ u[i].status = "uncapsulated") <=> i \in UncapsulatedItems(u)
    BY Zenon DEF UncapsulatedItems
  <2>3. (i \in DOMAIN w /\ w[i].status = "uncapsulated") \in BOOLEAN /\ (i \in DOMAIN u /\ u[i].status = "uncapsulated") \in BOOLEAN
    OBVIOUS
  <2> QED
    BY <1>1, <2>1, <2>2, <2>3, ChangeCounts
<1>4. Cardinality(FavoriteItems(u)) = Cardinality(FavoriteItems(w))
         + Change(i \in DOMAIN w /\ w[i].favorite, i \in DOMAIN u /\ u[i].favorite)
  <2>1. FavoriteItems(w) \ {i} = FavoriteItems(u) \ {i}
    BY DEF FavoriteItems
  <2>2. /\ (i \in DOMAIN w /\ w[i].favorite) <=> i \in FavoriteItems(w)
        /\ (i \in DOMAIN u /\ u[i].favorite) <=> i \in FavoriteItems(u)
    BY Zenon DEF FavoriteItems
  <2>3. (i \in DOMAIN w /\ w[i].favorite) \in BOOLEAN /\ (i \in DOMAIN u /\ u[i].favorite) \in BOOLEAN
    OBVIOUS
  <2> QED
    BY <1>1, <2>1, <2>2, <2>3, ChangeCounts
<1>5. Cardinality(ItemsForSale(u)) = Cardinality(ItemsForSale(w))
         + Change(i \in DOMAIN w /\ w[i].status = "for_sale", i \in DOMAIN u /\ u[i].status = "for_sale")
  <2>1. ItemsForSale(w) \ {i} = ItemsForSale(u) \ {i}
    BY DEF ItemsForSale
  <2>2. /\ (i \in DOMAIN w /\ w[i].status = "for_sale") <=> i \in ItemsForSale(w)
        /\ (i \in DOMAIN u /\ u[i].status = "for_sale") <=> i \in ItemsForSale(u)
    BY Zenon DEF ItemsForSale
  <2>3. (i \in DOMAIN w /\ w[i].status = "for_sale") \in BOOLEAN /\ (i \in DOMAIN u /\ u[i].status = "for_sale") \in BOOLEAN
    OBVIOUS
  <2> QED
    BY <1>1, <2>1, <2>2, <2>3, ChangeCounts
<1>6. Cardinality(ItemsForRepair(u)) = Cardinality(ItemsForRepair(w))
         + Change(i \in DOMAIN w /\ w[i].status = "for_repair", i \in DOMAIN u /\ u[i].status = "for_repair")
  <2>1. ItemsForRepair(w) \ {i} = ItemsForRepair(u) \ {i}
    BY DEF ItemsForRepair
  <2>2. /\ (i \in DOMAIN w /\ w[i].status = "for_repair") <=> i \in ItemsForRepair(w)
        /\ (i \in DOMAIN u /\ u[i].status = "for_repair") <=> i \in ItemsForRepair(u)
    BY Zenon DEF ItemsForRepair
  <2>3. (i \in DOMAIN w /\ w[i].status = "for_repair") \in BOOLEAN /\ (i \in DOMAIN u /\ u[i].status = "for_repair") \in BOOLEAN
    OBVIOUS
  <2> QED
    BY <1>1, <2>1, <2>2, <2>3, ChangeCounts
<1> QED
  BY <1>2, <1>3, <1>4, <1>5, <1>6 DEF Differs

\* One entry is replaced.
LEMMA EntryChanges ==
    ASSUME NEW w, WardrobeOK(w), NEW i \in DOMAIN w, NEW v \in Entries,
           v.inCapsule => v.status = "active" /\ i \notin Guest
    PROVE  WardrobeOK([w EXCEPT ![i] = v]) /\ Differs(w, [w EXCEPT ![i] = v], i)
<1> DEFINE u == [w EXCEPT ![i] = v]
<1>1. DOMAIN u = DOMAIN w /\ u[i] = v /\ \A j \in DOMAIN w \ {i} : u[j] = w[j]
  OBVIOUS
<1> HIDE DEF u
<1>2. WardrobeOK(u)
  <2>1. ASSUME NEW j \in DOMAIN u
        PROVE  u[j] \in Entries /\ (u[j].inCapsule => u[j].status = "active" /\ j \notin Guest)
    <3>1. CASE j = i
      BY <1>1, <3>1
    <3>2. CASE j # i
      <4>1. u[j] = w[j] /\ j \in DOMAIN w
        BY <1>1, <3>2
      <4>2. w[j] \in Entries /\ (w[j].inCapsule => w[j].status = "active" /\ j \notin Guest)
        BY <4>1, Zenon DEF WardrobeOK
      <4> QED
        BY <4>1, <4>2
    <3> QED
      BY <3>1, <3>2
  <2> QED
    BY <1>1, <2>1 DEF WardrobeOK
<1>3. Differs(w, u, i)
  BY <1>1, CountersFollow
<1> QED
  BY <1>2, <1>3 DEF u

\* One entry goes away.
LEMMA EntryGoes ==
    ASSUME NEW w, WardrobeOK(w), NEW i \in DOMAIN w
    PROVE  WardrobeOK(Without(w, i)) /\ Differs(w, Without(w, i), i)
<1> DEFINE u == Without(w, i)
<1>1. DOMAIN u = DOMAIN w \ {i} /\ \A j \in DOMAIN w \ {i} : u[j] = w[j]
  BY DEF Without, Restrict
<1> HIDE DEF u
<1>2. WardrobeOK(u)
  <2>1. IsFiniteSet(DOMAIN u)
    BY <1>1, FS_Subset DEF WardrobeOK
  <2> QED
    BY <1>1, <2>1 DEF WardrobeOK
<1>3. Differs(w, u, i)
  BY <1>1, CountersFollow
<1> QED
  BY <1>2, <1>3 DEF u

\* The items of a list are those of the wardrobe.
LEMMA InList ==
    ASSUME NEW w, NEW p, NEW i \in DOMAIN ListOf(p, w)
    PROVE  i \in DOMAIN w /\ ListOf(p, w)[i] = w[i] /\ (p # "my-items" => Belongs(p, w[i]))
<1>1. CASE p = "my-items"
  BY <1>1 DEF ListOf
<1>2. CASE p # "my-items"
  BY <1>2 DEF ListOf
<1> QED
  BY <1>1, <1>2

\* An entry that still belongs to the page stays in its list.
LEMMA ListKeeps ==
    ASSUME NEW w, NEW p, NEW i \in DOMAIN ListOf(p, w), NEW v, p # "my-items" => Belongs(p, v)
    PROVE  [ListOf(p, w) EXCEPT ![i] = v] = ListOf(p, [w EXCEPT ![i] = v])
<1> DEFINE u == [w EXCEPT ![i] = v]
<1>0. DOMAIN u = DOMAIN w /\ i \in DOMAIN w /\ u[i] = v /\ \A j \in DOMAIN w \ {i} : u[j] = w[j]
  BY InList
<1>1. CASE p = "my-items"
  BY <1>1 DEF ListOf
<1>2. CASE p # "my-items"
  <2> DEFINE S == {j \in DOMAIN w : Belongs(p, w[j])}
             T == {j \in DOMAIN u : Belongs(p, u[j])}
  <2>1. ListOf(p, w) = [j \in S |-> w[j]] /\ ListOf(p, u) = [j \in T |-> u[j]]
    BY <1>2 DEF ListOf
  <2> HIDE DEF u
  <2>2. i \in S
    BY <2>1
  <2>3. Belongs(p, v) /\ Belongs(p, w[i])
    BY <1>2, <2>2
  <2>4. ASSUME NEW j
        PROVE  j \in S <=> j \in T
    <3>1. CASE j = i
      BY <1>0, <2>3, <3>1
    <3>2. CASE j # i /\ j \in DOMAIN w
      <4>1. u[j] = w[j] /\ j \in DOMAIN u
        BY <1>0, <3>2
      <4> QED
        BY <3>2, <4>1
    <3>3. CASE j \notin DOMAIN w
      BY <1>0, <3>3
    <3> QED
      BY <3>1, <3>2, <3>3
  <2>5. S = T /\ S \subseteq DOMAIN w
    BY <2>4
  <2> HIDE DEF S, T
  <2>6. \A j \in S : u[j] = IF j = i THEN v ELSE w[j]
    BY <1>0, <2>5
  <2>7. [ListOf(p, w) EXCEPT ![i] = v] = ListOf(p, u)
    BY <2>1, <2>2, <2>5, <2>6
  <2> QED
    BY <2>7 DEF u
<1> QED
  BY <1>1, <1>2

\* An entry that does not belong to the page any more leaves its list.
LEMMA ListLoses ==
    ASSUME NEW w, NEW p, p # "my-items", NEW i \in DOMAIN ListOf(p, w), NEW v, ~Belongs(p, v)
    PROVE  Without(ListOf(p, w), i) = ListOf(p, [w EXCEPT ![i] = v])
<1> DEFINE u == [w EXCEPT ![i] = v]
           S == {j \in DOMAIN w : Belongs(p, w[j])}
           T == {j \in DOMAIN u : Belongs(p, u[j])}
<1>0. DOMAIN u = DOMAIN w /\ i \in DOMAIN w /\ u[i] = v /\ \A j \in DOMAIN w \ {i} : u[j] = w[j]
  BY InList
<1>1. ListOf(p, w) = [j \in S |-> w[j]] /\ ListOf(p, u) = [j \in T |-> u[j]]
  BY DEF ListOf
<1> HIDE DEF u
<1>2. ASSUME NEW j
      PROVE  j \in S \ {i} <=> j \in T
  <2>1. CASE j = i
    BY <1>0, <2>1
  <2>2. CASE j # i /\ j \in DOMAIN w
    <3>1. u[j] = w[j] /\ j \in DOMAIN u
      BY <1>0, <2>2
    <3> QED
      BY <2>2, <3>1
  <2>3. CASE j \notin DOMAIN w
    BY <1>0, <2>3
  <2> QED
    BY <2>1, <2>2, <2>3
<1>3. S \ {i} = T /\ S \subseteq DOMAIN w
  BY <1>2
<1> HIDE DEF S, T
<1>4. \A j \in T : u[j] = w[j]
  BY <1>0, <1>3
<1>5. Without(ListOf(p, w), i) = ListOf(p, u)
  BY <1>1, <1>3, <1>4 DEF Without, Restrict
<1> QED
  BY <1>5 DEF u

\* A deleted entry leaves every list.
LEMMA ListDrops ==
    ASSUME NEW w, NEW p, NEW i
    PROVE  Without(ListOf(p, w), i) = ListOf(p, Without(w, i))
<1> DEFINE u == Without(w, i)
<1>0. DOMAIN u = DOMAIN w \ {i} /\ \A j \in DOMAIN w \ {i} : u[j] = w[j]
  BY DEF Without, Restrict
<1>1. CASE p = "my-items"
  BY <1>1 DEF ListOf
<1>2. CASE p # "my-items"
  <2> DEFINE S == {j \in DOMAIN w : Belongs(p, w[j])}
             T == {j \in DOMAIN u : Belongs(p, u[j])}
  <2>1. ListOf(p, w) = [j \in S |-> w[j]] /\ ListOf(p, u) = [j \in T |-> u[j]]
    BY <1>2 DEF ListOf
  <2> HIDE DEF u
  <2>2. ASSUME NEW j
        PROVE  j \in S \ {i} <=> j \in T
    <3>1. CASE j \in DOMAIN w \ {i}
      <4>1. u[j] = w[j] /\ j \in DOMAIN u
        BY <1>0, <3>1
      <4> QED
        BY <3>1, <4>1
    <3>2. CASE j \notin DOMAIN w \ {i}
      BY <1>0, <3>2
    <3> QED
      BY <3>1, <3>2
  <2>3. S \ {i} = T /\ \A j \in T : u[j] = w[j]
    BY <1>0, <2>2
  <2> HIDE DEF S, T
  <2>4. Without(ListOf(p, w), i) = ListOf(p, u)
    BY <2>1, <2>3 DEF Without, Restrict
  <2> QED
    BY <2>4 DEF u
<1> QED
  BY <1>1, <1>2

-----------------------------------------------------------------------------
(* A change that is settled *)

\* What was promised is an entry.
LEMMA PromisedIsEntry ==
    ASSUME NEW w, WardrobeOK(w), NEW i \in DOMAIN w, NEW patch \in Patches
    PROVE  /\ Promised(w[i], patch) \in Entries
           /\ Promised(w[i], patch).inCapsule => Promised(w[i], patch).status = "active" /\ i \notin Guest
           /\ patch.field = "favorite" => /\ Promised(w[i], patch).favorite = patch.value
                                          /\ Promised(w[i], patch).status = w[i].status
           /\ patch.field # "favorite" => /\ Promised(w[i], patch).favorite = w[i].favorite
                                          /\ Promised(w[i], patch).status = patch.value
<1>1. w[i] \in Entries /\ (w[i].inCapsule => w[i].status = "active" /\ i \notin Guest)
  BY Zenon DEF WardrobeOK
<1>2. CASE patch.field = "favorite"
  <2>1. Promised(w[i], patch) = [w[i] EXCEPT !.favorite = patch.value]
    BY <1>2 DEF Promised
  <2>2. patch.value \in BOOLEAN
    BY <1>2 DEF Patches
  <2> QED
    BY <1>1, <1>2, <2>1, <2>2 DEF Entries
<1>3. CASE patch.field # "favorite"
  <2>1. Promised(w[i], patch) = [w[i] EXCEPT !.status = patch.value, !.inCapsule = FALSE]
    BY <1>3 DEF Promised, SetStatus
  <2>2. patch.value \in ItemStatus
    BY <1>3 DEF Patches
  <2> QED
    BY <1>1, <1>3, <2>1, <2>2 DEF Entries
<1> QED
  BY <1>2, <1>3

\* The list and the counters follow a patch on every page.
LEMMA SettleKeeps ==
    ASSUME PageOK(items, nav, whole), page \in Pages, NEW i \in DOMAIN items, NEW patch \in Patches,
           Wants(i, patch), Settle(i, items[i], patch)
    PROVE  PageOK(items', nav', whole')
<1> DEFINE e == whole[i]
           v == Promised(e, patch)
<1>1. /\ i \in DOMAIN whole /\ items[i] = e /\ (page # "my-items" => Belongs(page, e))
      /\ items = ListOf(page, whole) /\ WardrobeOK(whole) /\ NavOK(nav, page, whole)
  BY InList DEF PageOK
<1>2. whole' = [whole EXCEPT ![i] = v] /\ Apply(i, e, patch)
  BY <1>1 DEF Settle
<1>3. /\ e \in Entries /\ v \in Entries /\ (v.inCapsule => v.status = "active" /\ i \notin Guest)
      /\ patch.field = "favorite" => v.favorite = patch.value /\ v.status = e.status
      /\ patch.field # "favorite" => v.favorite = e.favorite /\ v.status = patch.value
  <2>1. e \in Entries
    BY <1>1, Zenon DEF WardrobeOK
  <2> QED
    BY <1>1, <2>1, PromisedIsEntry
<1>4. WardrobeOK(whole') /\ Differs(whole, whole', i) /\ DOMAIN whole' = DOMAIN whole /\ whole'[i] = v
  BY <1>1, <1>2, <1>3, EntryChanges
<1>5. patch.field = "favorite" => patch.value = ~e.favorite /\ v = [e EXCEPT !.favorite = ~e.favorite]
  BY <1>1 DEF Wants, Promised
<1>6. patch.field # "favorite" => patch.value \in MovesOn(page) /\ v = SetStatus(e, patch.value)
  BY <1>1 DEF Wants, Promised
<1>7. items' = ListOf(page, whole')
  <2> HIDE DEF v, e
  <2>0. i \in DOMAIN ListOf(page, whole)
    BY <1>1
  <2>1. ASSUME items' = [items EXCEPT ![i] = v], page # "my-items" => Belongs(page, v)
        PROVE  items' = ListOf(page, whole')
    <3>1. [ListOf(page, whole) EXCEPT ![i] = v] = ListOf(page, [whole EXCEPT ![i] = v])
      BY <2>0, <2>1, ListKeeps
    <3> QED
      BY <1>1, <1>2, <2>1, <3>1
  <2>2. ASSUME items' = Without(items, i), page # "my-items", ~Belongs(page, v)
        PROVE  items' = ListOf(page, whole')
    <3>1. Without(ListOf(page, whole), i) = ListOf(page, [whole EXCEPT ![i] = v])
      BY <2>0, <2>2, ListLoses
    <3> QED
      BY <1>1, <1>2, <2>2, <3>1
  <2>3. CASE patch.field = "favorite" /\ page # "favorites"
    <3>1. items' = [items EXCEPT ![i].favorite = ~e.favorite]
      BY <1>1, <1>2, <1>5, <2>3 DEF Apply, Pages, MyItemsToggleFavorite, ToggleFavorite
    <3>2. items' = [items EXCEPT ![i] = v]
      BY <1>1, <1>5, <2>3, <3>1
    <3>3. page # "my-items" => Belongs(page, v)
      BY <1>1, <1>3, <2>3 DEF Belongs
    <3> QED
      BY <2>1, <3>2, <3>3
  <2>4. CASE patch.field = "favorite" /\ page = "favorites"
    <3>1. items' = Without(items, i)
      BY <1>2, <2>4 DEF Apply, FavoritesRemoveFavorite
    <3>2. e.favorite /\ ~v.favorite
      BY <1>1, <1>3, <1>5, <2>4 DEF Belongs
    <3> QED
      BY <2>2, <2>4, <3>1, <3>2 DEF Belongs
  <2>5. CASE patch.field # "favorite" /\ page \in {"my-items", "favorites"}
    <3>1. items' = [items EXCEPT ![i] = v]
      BY <1>1, <1>2, <1>6, <2>5 DEF Apply, MyItemsMoveSelectedItem, FavoritesMoveSelectedItem
    <3>2. page # "my-items" => Belongs(page, v)
      BY <1>1, <1>3, <2>5 DEF Belongs
    <3> QED
      BY <2>1, <3>1, <3>2
  <2>6. CASE patch.field # "favorite" /\ page \in {"for-sale", "for-repair", "uncapsulated"}
    <3>1. items' = Without(items, i)
      BY <1>2, <2>6 DEF Apply, ForSaleReturnToMyItems, ForRepairMarkFixed, UncapsulatedCompleteDecision
    <3>2. ~Belongs(page, v)
      BY <1>3, <1>6, <2>6 DEF Belongs, MovesOn
    <3> QED
      BY <2>2, <2>6, <3>1, <3>2
  <2> QED
    BY <2>3, <2>4, <2>5, <2>6 DEF Pages
<1> HIDE DEF v, e
<1>8. /\ Cardinality(StatisticItems(whole')) = Cardinality(StatisticItems(whole))
            + Change(isWardrobeStatisticItem(e.status), isWardrobeStatisticItem(v.status))
      /\ Cardinality(UncapsulatedItems(whole')) = Cardinality(UncapsulatedItems(whole))
            + Change(e.status = "uncapsulated", v.status = "uncapsulated")
      /\ Cardinality(FavoriteItems(whole')) = Cardinality(FavoriteItems(whole)) + Change(e.favorite, v.favorite)
      /\ Cardinality(ItemsForSale(whole')) = Cardinality(ItemsForSale(whole))
            + Change(e.status = "for_sale", v.status = "for_sale")
      /\ Cardinality(ItemsForRepair(whole')) = Cardinality(ItemsForRepair(whole))
            + Change(e.status = "for_repair", v.status = "for_repair")
  BY <1>1, <1>3, <1>4 DEF Differs, Change, e
<1>9. NavOK(nav', page, whole')
  <2>0. /\ Cardinality(StatisticItems(whole)) \in Nat /\ Cardinality(UncapsulatedItems(whole)) \in Nat
        /\ Cardinality(FavoriteItems(whole)) \in Nat /\ Cardinality(ItemsForSale(whole)) \in Nat
        /\ Cardinality(ItemsForRepair(whole)) \in Nat
        /\ isWardrobeStatisticItem(e.status) => Cardinality(StatisticItems(whole)) # 0
        /\ e.status = "uncapsulated" => Cardinality(UncapsulatedItems(whole)) # 0
        /\ e.favorite => Cardinality(FavoriteItems(whole)) # 0
        /\ e.status = "for_sale" => Cardinality(ItemsForSale(whole)) # 0
        /\ e.status = "for_repair" => Cardinality(ItemsForRepair(whole)) # 0
    BY <1>1, EntryIsCounted DEF e
  <2>1. CASE page = "my-items"
    BY <1>1, <1>2, <2>1 DEF Apply, MyItemsToggleFavorite, MyItemsMoveSelectedItem, NavOK
  <2>2. CASE patch.field = "favorite" /\ page = "favorites"
    BY <1>1, <1>2, <1>3, <1>8, <2>0, <2>2 DEF Apply, FavoritesRemoveFavorite, NavOK, Navs, Dec, Change
  <2>3. CASE patch.field = "favorite" /\ page \notin {"my-items", "favorites"}
    BY <1>1, <1>2, <1>3, <1>5, <1>8, <2>0, <2>3 DEF Apply, ToggleFavorite, NavOK, Navs, Dec, Change, Entries, Pages
  <2>4. CASE patch.field # "favorite" /\ page = "favorites"
    <3>1. nav' = adjustStatusNavigation(e.status, patch.value)
      BY <1>2, <2>4 DEF Apply, FavoritesMoveSelectedItem
    <3>2. v.status \in {"for_sale", "for_repair"}
      BY <1>1, <1>3, <1>6, <2>4 DEF MovesOn, Belongs
    <3>3. patch.value = v.status /\ v.favorite = e.favorite
      BY <1>3, <2>4
    <3>4. /\ Cardinality(StatisticItems(whole')) = Cardinality(StatisticItems(whole)) - (IF isWardrobeStatisticItem(e.status) THEN 1 ELSE 0)
          /\ Cardinality(UncapsulatedItems(whole')) = Cardinality(UncapsulatedItems(whole)) - (IF e.status = "uncapsulated" THEN 1 ELSE 0)
          /\ Cardinality(FavoriteItems(whole')) = Cardinality(FavoriteItems(whole))
          /\ Cardinality(ItemsForSale(whole')) = Cardinality(ItemsForSale(whole))
                + (IF v.status = "for_sale" THEN 1 ELSE 0) - (IF e.status = "for_sale" THEN 1 ELSE 0)
          /\ Cardinality(ItemsForRepair(whole')) = Cardinality(ItemsForRepair(whole))
                + (IF v.status = "for_repair" THEN 1 ELSE 0) - (IF e.status = "for_repair" THEN 1 ELSE 0)
      BY <1>8, <2>0, <3>2, <3>3 DEF Change, isWardrobeStatisticItem
    <3>5. nav \in Navs /\ NavOK(nav, page, whole)
      BY <1>1 DEF NavOK
    <3>6. CASE e.status = v.status
      <4>1. nav' = nav
        BY <3>1, <3>3, <3>6 DEF adjustStatusNavigation
      <4> QED
        BY <2>0, <2>4, <3>2, <3>4, <3>5, <3>6, <4>1 DEF NavOK, isWardrobeStatisticItem
    <3>7. CASE e.status # v.status
      <4>1. nav' = [myItems |-> ForStatusChange(nav.myItems, e.status, v.status),
                    uncapsulated |-> IF e.status = "uncapsulated" THEN Dec(nav.uncapsulated) ELSE nav.uncapsulated,
                    favorites |-> nav.favorites,
                    forSale |-> IF v.status = "for_sale" THEN nav.forSale + 1
                                ELSE IF e.status = "for_sale" THEN Dec(nav.forSale) ELSE nav.forSale,
                    forRepair |-> IF v.status = "for_repair" THEN nav.forRepair + 1
                                  ELSE IF e.status = "for_repair" THEN Dec(nav.forRepair) ELSE nav.forRepair]
        BY <3>1, <3>3, <3>5, <3>7 DEF adjustStatusNavigation, Navs
      <4> QED
        BY <2>0, <2>4, <3>2, <3>4, <3>5, <3>7, <4>1 DEF NavOK, Navs, ForStatusChange, isWardrobeStatisticItem, Dec
    <3> QED
      BY <3>6, <3>7
  <2>5. CASE patch.field # "favorite" /\ page = "for-sale"
    <3>1. nav' = [nav EXCEPT !.myItems = ForStatusChange(@, e.status, "uncapsulated"),
                              !.forSale = Dec(@), !.uncapsulated = @ + 1]
      BY <1>2, <2>5 DEF Apply, ForSaleReturnToMyItems
    <3>2. v.status = "uncapsulated" /\ e.status = "for_sale"
      BY <1>1, <1>3, <1>6, <2>5 DEF MovesOn, Belongs
    <3>3. patch.value = v.status /\ v.favorite = e.favorite
      BY <1>3, <2>5
    <3>4. /\ Cardinality(StatisticItems(whole')) = Cardinality(StatisticItems(whole)) + 1
          /\ Cardinality(UncapsulatedItems(whole')) = Cardinality(UncapsulatedItems(whole)) + 1
          /\ Cardinality(FavoriteItems(whole')) = Cardinality(FavoriteItems(whole))
          /\ Cardinality(ItemsForSale(whole')) = Cardinality(ItemsForSale(whole)) - 1
          /\ Cardinality(ItemsForRepair(whole')) = Cardinality(ItemsForRepair(whole))
      BY <1>8, <2>0, <3>2, <3>3 DEF Change, isWardrobeStatisticItem
    <3>5. nav \in Navs /\ NavOK(nav, page, whole)
      BY <1>1 DEF NavOK
    <3>6. nav' = [myItems |-> ForStatusChange(nav.myItems, e.status, "uncapsulated"), uncapsulated |-> nav.uncapsulated + 1,
                  favorites |-> nav.favorites, forSale |-> Dec(nav.forSale),
                  forRepair |-> nav.forRepair]
      BY <3>1, <3>5 DEF Navs
    <3> QED
      BY <2>0, <2>5, <3>2, <3>3, <3>4, <3>5, <3>6
         DEF NavOK, Navs, ForStatusChange, isWardrobeStatisticItem, Dec
  <2>6. CASE patch.field # "favorite" /\ page = "for-repair"
    <3>1. nav' = [nav EXCEPT !.myItems = ForStatusChange(@, e.status, "uncapsulated"),
                              !.uncapsulated = @ + 1, !.forRepair = Dec(@)]
      BY <1>2, <2>6 DEF Apply, ForRepairMarkFixed
    <3>2. v.status = "uncapsulated" /\ e.status = "for_repair"
      BY <1>1, <1>3, <1>6, <2>6 DEF MovesOn, Belongs
    <3>3. patch.value = v.status /\ v.favorite = e.favorite
      BY <1>3, <2>6
    <3>4. /\ Cardinality(StatisticItems(whole')) = Cardinality(StatisticItems(whole)) + 1
          /\ Cardinality(UncapsulatedItems(whole')) = Cardinality(UncapsulatedItems(whole)) + 1
          /\ Cardinality(FavoriteItems(whole')) = Cardinality(FavoriteItems(whole))
          /\ Cardinality(ItemsForSale(whole')) = Cardinality(ItemsForSale(whole))
          /\ Cardinality(ItemsForRepair(whole')) = Cardinality(ItemsForRepair(whole)) - 1
      BY <1>8, <2>0, <3>2, <3>3 DEF Change, isWardrobeStatisticItem
    <3>5. nav \in Navs /\ NavOK(nav, page, whole)
      BY <1>1 DEF NavOK
    <3>6. nav' = [myItems |-> ForStatusChange(nav.myItems, e.status, "uncapsulated"), uncapsulated |-> nav.uncapsulated + 1,
                  favorites |-> nav.favorites, forSale |-> nav.forSale,
                  forRepair |-> Dec(nav.forRepair)]
      BY <3>1, <3>5 DEF Navs
    <3> QED
      BY <2>0, <2>6, <3>2, <3>3, <3>4, <3>5, <3>6
         DEF NavOK, Navs, ForStatusChange, isWardrobeStatisticItem, Dec
  <2>7. CASE patch.field # "favorite" /\ page = "uncapsulated"
    <3>1. nav' = [nav EXCEPT !.myItems = ForStatusChange(@, e.status, patch.value), !.uncapsulated = Dec(@),
                              !.forSale = IF patch.value = "for_sale" THEN @ + 1 ELSE @,
                              !.forRepair = IF patch.value = "for_repair" THEN @ + 1 ELSE @]
      BY <1>2, <2>7 DEF Apply, UncapsulatedCompleteDecision
    <3>2. v.status \in {"for_sale", "for_repair"} /\ e.status = "uncapsulated"
      BY <1>1, <1>3, <1>6, <2>7 DEF MovesOn, Belongs
    <3>3. patch.value = v.status /\ v.favorite = e.favorite
      BY <1>3, <2>7
    <3>4. /\ Cardinality(StatisticItems(whole')) = Cardinality(StatisticItems(whole)) - 1
          /\ Cardinality(UncapsulatedItems(whole')) = Cardinality(UncapsulatedItems(whole)) - 1
          /\ Cardinality(FavoriteItems(whole')) = Cardinality(FavoriteItems(whole))
          /\ Cardinality(ItemsForSale(whole')) = Cardinality(ItemsForSale(whole)) + (IF v.status = "for_sale" THEN 1 ELSE 0)
          /\ Cardinality(ItemsForRepair(whole')) = Cardinality(ItemsForRepair(whole)) + (IF v.status = "for_repair" THEN 1 ELSE 0)
      BY <1>8, <2>0, <3>2, <3>3 DEF Change, isWardrobeStatisticItem
    <3>5. nav \in Navs /\ NavOK(nav, page, whole)
      BY <1>1 DEF NavOK
    <3>6. nav' = [myItems |-> ForStatusChange(nav.myItems, e.status, patch.value), uncapsulated |-> Dec(nav.uncapsulated),
                  favorites |-> nav.favorites, forSale |-> IF patch.value = "for_sale" THEN nav.forSale + 1 ELSE nav.forSale,
                  forRepair |-> IF patch.value = "for_repair" THEN nav.forRepair + 1 ELSE nav.forRepair]
      BY <3>1, <3>5 DEF Navs
    <3> QED
      BY <2>0, <2>7, <3>2, <3>3, <3>4, <3>5, <3>6
         DEF NavOK, Navs, ForStatusChange, isWardrobeStatisticItem, Dec
  <2> QED
    BY <2>1, <2>2, <2>3, <2>4, <2>5, <2>6, <2>7 DEF Pages
<1> QED
  BY <1>4, <1>7, <1>9 DEF PageOK

\* The list and the counters follow a deletion on every page.
LEMMA DeleteKeeps ==
    ASSUME PageOK(items, nav, whole), page \in Pages, NEW i \in Items, deleteItem(i)
    PROVE  PageOK(items', nav', whole')
<1> DEFINE e == whole[i]
<1>1. /\ i \in DOMAIN items /\ i \in DOMAIN whole /\ items[i] = e /\ (page # "my-items" => Belongs(page, e))
      /\ items = ListOf(page, whole) /\ WardrobeOK(whole) /\ NavOK(nav, page, whole) /\ nav \in Navs
  <2>1. i \in DOMAIN items
    BY DEF deleteItem
  <2> QED
    BY <2>1, InList DEF PageOK, NavOK
<1>2. whole' = Without(whole, i) /\ items' = Without(items, i) /\ nav' = DeletedNav(e)
  BY <1>1 DEF deleteItem
<1>3. WardrobeOK(whole') /\ Differs(whole, whole', i) /\ i \notin DOMAIN whole'
  BY <1>1, <1>2, EntryGoes DEF Without, Restrict
<1>4. items' = ListOf(page, whole')
  BY <1>1, <1>2, ListDrops
<1>5. e \in Entries
  BY <1>1, Zenon DEF WardrobeOK
<1>6. /\ Cardinality(StatisticItems(whole')) = Cardinality(StatisticItems(whole))
            - (IF isWardrobeStatisticItem(e.status) THEN 1 ELSE 0)
      /\ Cardinality(UncapsulatedItems(whole')) = Cardinality(UncapsulatedItems(whole))
            - (IF e.status = "uncapsulated" THEN 1 ELSE 0)
      /\ Cardinality(FavoriteItems(whole')) = Cardinality(FavoriteItems(whole)) - (IF e.favorite THEN 1 ELSE 0)
      /\ Cardinality(ItemsForSale(whole')) = Cardinality(ItemsForSale(whole))
            - (IF e.status = "for_sale" THEN 1 ELSE 0)
      /\ Cardinality(ItemsForRepair(whole')) = Cardinality(ItemsForRepair(whole))
            - (IF e.status = "for_repair" THEN 1 ELSE 0)
  BY <1>1, <1>3, EntryIsCounted DEF Differs, Change
<1>7. /\ Cardinality(StatisticItems(whole)) \in Nat /\ Cardinality(UncapsulatedItems(whole)) \in Nat
      /\ Cardinality(FavoriteItems(whole)) \in Nat /\ Cardinality(ItemsForSale(whole)) \in Nat
      /\ Cardinality(ItemsForRepair(whole)) \in Nat
      /\ isWardrobeStatisticItem(e.status) => Cardinality(StatisticItems(whole)) # 0
      /\ e.status = "uncapsulated" => Cardinality(UncapsulatedItems(whole)) # 0
      /\ e.favorite => Cardinality(FavoriteItems(whole)) # 0
      /\ e.status = "for_sale" => Cardinality(ItemsForSale(whole)) # 0
      /\ e.status = "for_repair" => Cardinality(ItemsForRepair(whole)) # 0
  BY <1>1, EntryIsCounted
<1> HIDE DEF e
<1>8. NavOK(nav', page, whole')
  <2>1. CASE page = "my-items"
    BY <1>1, <1>2, <2>1 DEF DeletedNav, NavOK
  <2>2. CASE page = "favorites"
    <3>1. nav' = [myItems |-> ForRemoval(nav.myItems, e),
                  uncapsulated |-> IF e.status = "uncapsulated" THEN Dec(nav.uncapsulated) ELSE nav.uncapsulated,
                  favorites |-> IF e.favorite THEN Dec(nav.favorites) ELSE nav.favorites,
                  forSale |-> IF e.status = "for_sale" THEN Dec(nav.forSale) ELSE nav.forSale,
                  forRepair |-> IF e.status = "for_repair" THEN Dec(nav.forRepair) ELSE nav.forRepair]
      BY <1>1, <1>2, <2>2 DEF DeletedNav, FavoritesDeleted, Navs
    <3> QED
      BY <1>1, <1>6, <1>7, <2>2, <3>1 DEF NavOK, Navs, ForRemoval, Dec
  <2>3. CASE page = "for-sale"
    <3>1. nav' = [myItems |-> ForRemoval(nav.myItems, e), uncapsulated |-> nav.uncapsulated,
                  favorites |-> IF e.favorite THEN Dec(nav.favorites) ELSE nav.favorites,
                  forSale |-> Dec(nav.forSale), forRepair |-> nav.forRepair]
      BY <1>1, <1>2, <2>3 DEF DeletedNav, ForSaleDeleted, Navs
    <3>2. e.status = "for_sale"
      BY <1>1, <2>3 DEF Belongs
    <3> QED
      BY <1>1, <1>6, <1>7, <2>3, <3>1, <3>2 DEF NavOK, Navs, ForRemoval, Dec
  <2>4. CASE page = "for-repair"
    <3>1. nav' = [myItems |-> ForRemoval(nav.myItems, e), uncapsulated |-> nav.uncapsulated,
                  favorites |-> IF e.favorite THEN Dec(nav.favorites) ELSE nav.favorites,
                  forSale |-> nav.forSale, forRepair |-> Dec(nav.forRepair)]
      BY <1>1, <1>2, <2>4 DEF DeletedNav, ForRepairDeleted, Navs
    <3>2. e.status = "for_repair"
      BY <1>1, <2>4 DEF Belongs
    <3> QED
      BY <1>1, <1>6, <1>7, <2>4, <3>1, <3>2 DEF NavOK, Navs, ForRemoval, Dec
  <2>5. CASE page = "uncapsulated"
    <3>1. nav' = [myItems |-> Dec(nav.myItems), uncapsulated |-> Dec(nav.uncapsulated),
                  favorites |-> IF e.favorite THEN Dec(nav.favorites) ELSE nav.favorites,
                  forSale |-> nav.forSale, forRepair |-> nav.forRepair]
      BY <1>1, <1>2, <2>5 DEF DeletedNav, UncapsulatedDeleted, Navs
    <3>2. e.status = "uncapsulated" /\ isWardrobeStatisticItem(e.status)
      BY <1>1, <2>5 DEF Belongs, isWardrobeStatisticItem
    <3> QED
      BY <1>1, <1>6, <1>7, <2>5, <3>1, <3>2 DEF NavOK, Navs, Dec
  <2> QED
    BY <2>1, <2>2, <2>3, <2>4, <2>5 DEF Pages
<1> QED
  BY <1>3, <1>4, <1>8 DEF PageOK

\* The list and the counters follow an item into the capsule.
LEMMA AddToCapsuleKeeps ==
    ASSUME PageOK(items, nav, whole), page \in Pages, NEW i \in Items, addToCapsule(i)
    PROVE  PageOK(items', nav', whole')
<1> DEFINE e == whole[i]
           v == [e EXCEPT !.status = "active", !.inCapsule = TRUE]
<1>1. /\ i \in DOMAIN items /\ i \in DOMAIN whole /\ i \notin Guest /\ items[i] = e
      /\ (page # "my-items" => Belongs(page, e))
      /\ items = ListOf(page, whole) /\ WardrobeOK(whole) /\ NavOK(nav, page, whole) /\ nav \in Navs
  <2>1. i \in DOMAIN items /\ i \notin Guest
    BY DEF addToCapsule
  <2> QED
    BY <2>1, InList DEF PageOK, NavOK
<1>2. whole' = [whole EXCEPT ![i] = v]
  BY DEF addToCapsule
<1>3. e \in Entries
  BY <1>1, Zenon DEF WardrobeOK
<1>4. v \in Entries /\ v.status = "active" /\ v.favorite = e.favorite
  BY <1>3 DEF Entries, ItemStatus
<1>5. WardrobeOK(whole') /\ Differs(whole, whole', i) /\ DOMAIN whole' = DOMAIN whole /\ whole'[i] = v
  BY <1>1, <1>2, <1>4, EntryChanges
<1>6. \/ page = "favorites" /\ items' = [items EXCEPT ![i] = v] /\ nav' = adjustStatusNavigation(e.status, "active")
      \/ /\ page = "for-sale" /\ items' = Without(items, i)
         /\ nav' = [nav EXCEPT !.myItems = ForStatusChange(@, e.status, "active"), !.forSale = Dec(@)]
      \/ /\ page = "uncapsulated" /\ items' = Without(items, i)
         /\ nav' = [nav EXCEPT !.myItems = ForStatusChange(@, e.status, "active"),
                               !.uncapsulated = Dec(@), !.forSale = @, !.forRepair = @]
  <2>1. CASE FavoritesAddToCapsule(i, items[i])
    BY <1>1, <2>1 DEF FavoritesAddToCapsule
  <2>2. CASE ForSaleAddToCapsule(i, items[i])
    BY <1>1, <2>2 DEF ForSaleAddToCapsule
  <2>3. CASE UncapsulatedConfirmAddToCapsule(i, items[i])
    BY <1>1, <2>3 DEF UncapsulatedConfirmAddToCapsule, UncapsulatedCompleteDecision
  <2> QED
    BY <2>1, <2>2, <2>3 DEF addToCapsule
<1> HIDE DEF v, e
<1>7. /\ Cardinality(StatisticItems(whole')) = Cardinality(StatisticItems(whole))
            + (IF isWardrobeStatisticItem(e.status) THEN 0 ELSE 1)
      /\ Cardinality(UncapsulatedItems(whole')) = Cardinality(UncapsulatedItems(whole))
            - (IF e.status = "uncapsulated" THEN 1 ELSE 0)
      /\ Cardinality(FavoriteItems(whole')) = Cardinality(FavoriteItems(whole))
      /\ Cardinality(ItemsForSale(whole')) = Cardinality(ItemsForSale(whole))
            - (IF e.status = "for_sale" THEN 1 ELSE 0)
      /\ Cardinality(ItemsForRepair(whole')) = Cardinality(ItemsForRepair(whole))
            - (IF e.status = "for_repair" THEN 1 ELSE 0)
  BY <1>1, <1>4, <1>5, EntryIsCounted DEF Differs, Change, isWardrobeStatisticItem, e
<1>8. /\ Cardinality(StatisticItems(whole)) \in Nat /\ Cardinality(UncapsulatedItems(whole)) \in Nat
      /\ Cardinality(FavoriteItems(whole)) \in Nat /\ Cardinality(ItemsForSale(whole)) \in Nat
      /\ Cardinality(ItemsForRepair(whole)) \in Nat
      /\ isWardrobeStatisticItem(e.status) => Cardinality(StatisticItems(whole)) # 0
      /\ e.status = "uncapsulated" => Cardinality(UncapsulatedItems(whole)) # 0
      /\ e.status = "for_sale" => Cardinality(ItemsForSale(whole)) # 0
      /\ e.status = "for_repair" => Cardinality(ItemsForRepair(whole)) # 0
  BY <1>1, EntryIsCounted DEF e
<1>9. i \in DOMAIN ListOf(page, whole)
  BY <1>1
<1>10. CASE page = "favorites"
  <2>1. items' = [items EXCEPT ![i] = v] /\ nav' = adjustStatusNavigation(e.status, "active")
    BY <1>6, <1>10
  <2>2. [ListOf(page, whole) EXCEPT ![i] = v] = ListOf(page, [whole EXCEPT ![i] = v])
    BY <1>1, <1>4, <1>9, <1>10, ListKeeps DEF Belongs
  <2>3. NavOK(nav', page, whole')
    <3>1. CASE e.status = "active"
      BY <1>1, <1>7, <1>8, <1>10, <2>1, <3>1 DEF adjustStatusNavigation, NavOK, isWardrobeStatisticItem
    <3>2. CASE e.status # "active"
      <4>1. nav' = [myItems |-> ForStatusChange(nav.myItems, e.status, "active"),
                    uncapsulated |-> IF e.status = "uncapsulated" THEN Dec(nav.uncapsulated) ELSE nav.uncapsulated,
                    favorites |-> nav.favorites,
                    forSale |-> IF e.status = "for_sale" THEN Dec(nav.forSale) ELSE nav.forSale,
                    forRepair |-> IF e.status = "for_repair" THEN Dec(nav.forRepair) ELSE nav.forRepair]
        BY <1>1, <2>1, <3>2 DEF adjustStatusNavigation, Navs
      <4> QED
        BY <1>1, <1>7, <1>8, <1>10, <4>1 DEF NavOK, Navs, ForStatusChange, isWardrobeStatisticItem, Dec
    <3> QED
      BY <3>1, <3>2
  <2> QED
    BY <1>1, <1>2, <1>5, <2>1, <2>2, <2>3 DEF PageOK
<1>11. CASE page \in {"for-sale", "uncapsulated"}
  <2>1. items' = Without(items, i)
    BY <1>6, <1>11
  <2>2. Without(ListOf(page, whole), i) = ListOf(page, [whole EXCEPT ![i] = v])
    BY <1>4, <1>9, <1>11, ListLoses DEF Belongs
  <2>3. NavOK(nav', page, whole')
    <3>1. CASE page = "for-sale"
      <4>1. nav' = [myItems |-> ForStatusChange(nav.myItems, e.status, "active"), uncapsulated |-> nav.uncapsulated,
                    favorites |-> nav.favorites, forSale |-> Dec(nav.forSale), forRepair |-> nav.forRepair]
        BY <1>1, <1>6, <3>1 DEF Navs
      <4>2. e.status = "for_sale"
        BY <1>1, <3>1 DEF Belongs
      <4> QED
        BY <1>1, <1>7, <1>8, <3>1, <4>1, <4>2 DEF NavOK, Navs, ForStatusChange, isWardrobeStatisticItem, Dec
    <3>2. CASE page = "uncapsulated"
      <4>1. nav' = [myItems |-> ForStatusChange(nav.myItems, e.status, "active"), uncapsulated |-> Dec(nav.uncapsulated),
                    favorites |-> nav.favorites, forSale |-> nav.forSale, forRepair |-> nav.forRepair]
        BY <1>1, <1>6, <3>2 DEF Navs
      <4>2. e.status = "uncapsulated"
        BY <1>1, <3>2 DEF Belongs
      <4> QED
        BY <1>1, <1>7, <1>8, <3>2, <4>1, <4>2 DEF NavOK, Navs, ForStatusChange, isWardrobeStatisticItem, Dec
    <3> QED
      BY <1>11, <3>1, <3>2
  <2> QED
    BY <1>1, <1>2, <1>5, <2>1, <2>2, <2>3 DEF PageOK
<1> QED
  BY <1>6, <1>10, <1>11

-----------------------------------------------------------------------------
(* The steps *)

\* A page is rendered from the rows.
LEMMA RenderedIsOK ==
    ASSUME WardrobeOK(row)', page' \in Pages, items' = Snapshot(page', row').items,
           nav' = Snapshot(page', row').nav, calls' = [r \in Requests |-> None], whole' = row', disturbed' = {}
    PROVE  IInv'
<1>1. PageOK(items, nav, whole)'
  BY SnapshotAgrees DEF PageOK
<1>2. \A r \in Requests : CallOK(r)'
  BY DEF CallOK
<1>3. StoredOK'
  BY DEF StoredOK, WardrobeOK
<1> QED
  BY <1>1, <1>2, <1>3 DEF IInv

\* The first page.
LEMMA InitIInv == Init => IInv
<1> SUFFICES ASSUME Init
             PROVE  IInv
  OBVIOUS
<1>1. WardrobeOK(row)
  BY DEF Init, WardrobeOK
<1>2. items = Snapshot(page, row).items /\ nav = Snapshot(page, row).nav /\ page \in Pages
  BY DEF Init, Snapshot, Pages
<1>3. PageOK(items, nav, whole)
  BY <1>1, <1>2, SnapshotAgrees DEF PageOK, Init
<1>4. \A r \in Requests : CallOK(r)
  BY DEF Init, CallOK
<1>5. StoredOK
  BY DEF Init, StoredOK, WardrobeOK
<1> QED
  BY <1>1, <1>2, <1>3, <1>4, <1>5 DEF IInv, Init

\* A change of an item of the user's own leaves the guest items and their calls alone.
LEMMA LocalChange ==
    ASSUME IInv, PageOK(items', nav', whole'), UNCHANGED <<row, page, calls, disturbed>>,
           NEW i, i \notin Guest,
           \A j \in DOMAIN whole \ {i} : j \in DOMAIN whole' /\ whole'[j] = whole[j]
    PROVE  IInv'
<1>1. PageOK(items, nav, whole)'
  BY DEF PageOK
<1>2. ASSUME NEW j \in DOMAIN items \ {i}
      PROVE  j \in DOMAIN items' /\ items'[j] = items[j]
  <2>1. items = ListOf(page, whole) /\ items' = ListOf(page, whole')
    BY DEF IInv, PageOK
  <2>2. j \in DOMAIN whole' /\ whole'[j] = items[j] /\ (page # "my-items" => Belongs(page, whole'[j]))
    BY <1>2, <2>1, InList
  <2> QED
    BY <2>1, <2>2 DEF ListOf
<1>3. ASSUME NEW r \in Requests, calls[r] # None
      PROVE  CallOK(r)'
  <2>1. CallOK(r) /\ calls[r].item \in DOMAIN items \ {i}
    BY <1>3 DEF IInv, CallOK, Mutations
  <2>2. calls[r].item \in DOMAIN items' /\ items'[calls[r].item] = items[calls[r].item]
    BY <1>2, <2>1
  <2> QED
    BY <1>3, <2>1, <2>2 DEF CallOK, Wants
<1>4. \A r \in Requests : CallOK(r)'
  BY <1>3 DEF CallOK
<1>5. StoredOK'
  <2>1. ASSUME NEW j \in (Guest \cap DOMAIN row) \ disturbed
        PROVE  j \in DOMAIN whole' /\ whole'[j] = whole[j]
    BY DEF IInv, StoredOK
  <2> QED
    BY <2>1 DEF IInv, StoredOK, Pending
<1> QED
  BY <1>1, <1>4, <1>5 DEF IInv

\* A row that is patched.
LEMMA PatchedRow ==
    ASSUME WardrobeOK(row), NEW i \in Guest, NEW patch \in Patches,
           row' = [row EXCEPT ![i][patch.field] = patch.value]
    PROVE  /\ WardrobeOK(row)' /\ DOMAIN row' = DOMAIN row
           /\ \A j \in DOMAIN row \ {i} : row'[j] = row[j]
           /\ i \in DOMAIN row => row'[i] = Promised(row[i], patch)
<1>1. DOMAIN row' = DOMAIN row /\ \A j \in DOMAIN row \ {i} : row'[j] = row[j]
  OBVIOUS
<1>2. CASE i \notin DOMAIN row
  BY <1>1, <1>2 DEF WardrobeOK
<1>3. CASE i \in DOMAIN row
  <2>1. row[i] \in Entries /\ ~row[i].inCapsule
    BY <1>3, Zenon DEF WardrobeOK
  <2>2. row'[i] = Promised(row[i], patch)
    <3>1. CASE patch.field = "favorite"
      BY <1>3, <3>1 DEF Promised
    <3>2. CASE patch.field = "status"
      <4>1. row'[i] = [row[i] EXCEPT !.status = patch.value]
        BY <1>3, <3>2
      <4>2. Promised(row[i], patch) = [row[i] EXCEPT !.status = patch.value, !.inCapsule = FALSE]
        BY <3>2 DEF Promised, SetStatus
      <4> QED
        BY <2>1, <4>1, <4>2 DEF Entries
    <3> QED
      BY <3>1, <3>2 DEF Patches
  <2>3. /\ Promised(row[i], patch) \in Entries
        /\ Promised(row[i], patch).inCapsule => Promised(row[i], patch).status = "active" /\ i \notin Guest
    BY <1>3, PromisedIsEntry
  <2>4. WardrobeOK(row)'
    <3>1. ASSUME NEW j \in DOMAIN row'
          PROVE  row'[j] \in Entries /\ (row'[j].inCapsule => row'[j].status = "active" /\ j \notin Guest)
      <4>1. CASE j = i
        BY <2>2, <2>3, <4>1
      <4>2. CASE j # i
        <5>1. row'[j] = row[j] /\ j \in DOMAIN row
          BY <1>1, <4>2
        <5>2. row[j] \in Entries /\ (row[j].inCapsule => row[j].status = "active" /\ j \notin Guest)
          BY <5>1, Zenon DEF WardrobeOK
        <5> QED
          BY <5>1, <5>2
      <4> QED
        BY <4>1, <4>2
    <3> QED
      BY <1>1, <3>1 DEF WardrobeOK
  <2> QED
    BY <1>1, <2>2, <2>4
<1> QED
  BY <1>2, <1>3

\* A button is pressed on a guest item: the call knows the item as it is.
LEMMA ClickGuestIInv ==
    ASSUME IInv, NEW r \in Requests, NEW i \in Items, NEW patch \in Patches, ClickGuest(r, i, patch)
    PROVE  IInv'
<1> DEFINE c == [item |-> i, entry |-> items[i], patch |-> patch, stored |-> FALSE]
<1>1. /\ UNCHANGED <<row, page, items, nav, whole, disturbed>> /\ i \in Guest /\ i \in DOMAIN items
      /\ calls[r] = None /\ calls' = [calls EXCEPT ![r] = c] /\ Wants(i, patch)
      /\ \A s \in Requests : calls[s] # None => calls[s].item # i
  BY DEF ClickGuest, Offers, Wants, Pending
<1>2. items[i] \in Entries /\ items[i] = whole[i]
  <2>1. items[i] = whole[i] /\ i \in DOMAIN whole /\ WardrobeOK(whole)
    BY <1>1, InList DEF IInv, PageOK
  <2> QED
    BY <2>1, Zenon DEF WardrobeOK
<1>3. c \in Mutations /\ c.item = i /\ c.entry = items[i] /\ c.patch = patch /\ ~c.stored
  BY <1>1, <1>2 DEF Mutations
<1> HIDE DEF c
<1>4. PageOK(items, nav, whole)' /\ calls' \in [Requests -> Mutations \cup {None}]
  BY <1>1, <1>3 DEF IInv, PageOK
<1>5. calls'[r] = c /\ \A s \in Requests \ {r} : calls'[s] = calls[s]
  BY <1>1 DEF IInv
<1>6. ASSUME NEW s \in Requests
      PROVE  CallOK(s)'
  <2>1. CallOK(s)
    BY DEF IInv
  <2>2. CASE s = r
    BY <1>1, <1>3, <1>5, <2>2 DEF CallOK, Wants
  <2>3. CASE s # r
    BY <1>1, <1>3, <1>5, <2>1, <2>3 DEF CallOK, Wants
  <2> QED
    BY <2>2, <2>3
<1>7. StoredOK'
  <2>1. ASSUME NEW j \in (Guest \cap DOMAIN row) \ disturbed
        PROVE  /\ j \in DOMAIN whole /\ (~Pending(j)' => whole[j] = row[j])
               /\ \A s \in Requests : calls'[s] # None /\ calls'[s].item = j =>
                     row[j] = IF calls'[s].stored THEN Promised(whole[j], calls'[s].patch) ELSE whole[j]
    <3>1. /\ j \in DOMAIN whole /\ (~Pending(j) => whole[j] = row[j])
          /\ \A s \in Requests : calls[s] # None /\ calls[s].item = j =>
                row[j] = IF calls[s].stored THEN Promised(whole[j], calls[s].patch) ELSE whole[j]
      BY DEF IInv, StoredOK
    <3>2. Pending(j) => Pending(j)'
      BY <1>1, <1>5 DEF Pending
    <3>3. j = i => ~Pending(j)
      BY <1>1 DEF Pending
    <3>4. ASSUME NEW s \in Requests, calls'[s] # None, calls'[s].item = j
          PROVE  row[j] = IF calls'[s].stored THEN Promised(whole[j], calls'[s].patch) ELSE whole[j]
      <4>1. CASE s = r
        BY <1>3, <1>5, <3>1, <3>3, <3>4, <4>1
      <4>2. CASE s # r
        BY <1>5, <3>1, <3>4, <4>2
      <4> QED
        BY <4>1, <4>2
    <3> QED
      BY <3>1, <3>2, <3>4
  <2> QED
    BY <1>1, <2>1 DEF StoredOK, Pending
<1> QED
  BY <1>1, <1>4, <1>6, <1>7 DEF IInv

\* The API carries a call out.
LEMMA StoreIInv ==
    ASSUME IInv, NEW r \in Requests, Store(r)
    PROVE  IInv'
<1> DEFINE i == calls[r].item
           patch == calls[r].patch
           c == [calls[r] EXCEPT !.stored = TRUE]
<1>1. /\ UNCHANGED <<page, items, nav, whole, disturbed>> /\ calls[r] \in Mutations
      /\ calls[r] # None /\ ~calls[r].stored /\ i \in Guest /\ patch \in Patches
      /\ row' = [row EXCEPT ![i][patch.field] = patch.value] /\ calls' = [calls EXCEPT ![r] = c]
  <2>1. calls[r] \in Mutations
    BY DEF Store, IInv
  <2> QED
    BY <2>1 DEF Store, IInv, Mutations
<1>2. c \in Mutations /\ c.item = i /\ c.entry = calls[r].entry /\ c.patch = patch /\ c.stored
  BY <1>1 DEF Mutations
<1> HIDE DEF c
<1>3. /\ calls'[r] = c /\ \A s \in Requests \ {r} : calls'[s] = calls[s]
      /\ calls' \in [Requests -> Mutations \cup {None}]
  BY <1>1, <1>2 DEF IInv
<1>4. \A s \in Requests : CallOK(s) /\ (calls'[s] = None <=> calls[s] = None)
         /\ (calls[s] # None => /\ calls'[s].item = calls[s].item /\ calls'[s].entry = calls[s].entry
                                /\ calls'[s].patch = calls[s].patch)
  <2>1. c # None
    BY <1>2, NoneAssumption
  <2> QED
    BY <1>1, <1>2, <1>3, <2>1 DEF IInv
<1>5. ASSUME NEW s \in Requests
      PROVE  CallOK(s)'
  <2> SUFFICES ASSUME calls'[s] # None
               PROVE  CallOK(s)'
    BY DEF CallOK
  <2>1. \A t \in Requests \ {s} : calls'[t] # None => calls'[t].item # calls'[s].item
    BY <1>4 DEF CallOK
  <2>2. CallOK(s) /\ calls[s] # None
    BY <1>4
  <2>3. calls[s].item \in DOMAIN items' /\ calls[s].entry = items'[calls[s].item] /\ Wants(calls[s].item, calls[s].patch)
    BY <1>1, <2>2 DEF CallOK
  <2>4. /\ calls'[s].item = calls[s].item /\ calls'[s].entry = calls[s].entry /\ calls'[s].patch = calls[s].patch
        /\ page' = page /\ items' = items
    BY <1>1, <1>4, <2>2
  <2> QED
    BY <2>1, <2>3, <2>4 DEF CallOK, Wants
<1>6. /\ WardrobeOK(row)' /\ DOMAIN row' = DOMAIN row /\ \A j \in DOMAIN row \ {i} : row'[j] = row[j]
      /\ i \in DOMAIN row => row'[i] = Promised(row[i], patch)
  BY <1>1, PatchedRow DEF IInv
<1>7. StoredOK'
  <2>1. ASSUME NEW j \in (Guest \cap DOMAIN row) \ disturbed
        PROVE  /\ j \in DOMAIN whole /\ (~Pending(j)' => whole[j] = row'[j])
               /\ \A s \in Requests : calls'[s] # None /\ calls'[s].item = j =>
                     row'[j] = IF calls'[s].stored THEN Promised(whole[j], calls'[s].patch) ELSE whole[j]
    <3>1. /\ j \in DOMAIN whole /\ (~Pending(j) => whole[j] = row[j])
          /\ \A s \in Requests : calls[s] # None /\ calls[s].item = j =>
                row[j] = IF calls[s].stored THEN Promised(whole[j], calls[s].patch) ELSE whole[j]
      BY DEF IInv, StoredOK
    <3>2. Pending(j)' <=> Pending(j)
      BY <1>4 DEF Pending
    <3>3. CASE j = i
      <4>1. Pending(j) /\ row'[j] = Promised(whole[j], patch)
        BY <1>1, <1>6, <3>1, <3>3 DEF Pending
      <4>2. \A s \in Requests : calls'[s] # None /\ calls'[s].item = j => s = r
        BY <1>1, <1>4, <3>3 DEF CallOK
      <4> QED
        BY <1>2, <1>3, <3>1, <3>2, <4>1, <4>2
    <3>4. CASE j # i
      <4>1. row'[j] = row[j]
        BY <1>6, <3>4
      <4>2. \A s \in Requests : calls'[s] # None /\ calls'[s].item = j => s # r /\ calls'[s] = calls[s]
        BY <1>2, <1>3, <3>4
      <4> QED
        BY <3>1, <3>2, <4>1, <4>2
    <3> QED
      BY <3>3, <3>4
  <2> QED
    BY <1>1, <1>6, <2>1 DEF StoredOK, Pending
<1>8. PageOK(items, nav, whole)'
  BY <1>1 DEF IInv, PageOK
<1> QED
  BY <1>1, <1>3, <1>5, <1>6, <1>7, <1>8 DEF IInv

\* A call is over: it was carried out, refused or lost.
LEMMA AnsweredIInv ==
    ASSUME IInv, NEW r \in Requests, Succeed(r) \/ Refuse(r) \/ Lose(r)
    PROVE  IInv'
<1> DEFINE i == calls[r].item
           patch == calls[r].patch
<1>1. /\ UNCHANGED <<row, page>> /\ calls[r] # None /\ calls[r] \in Mutations /\ CallOK(r)
      /\ calls' = [calls EXCEPT ![r] = None]
  BY DEF Succeed, Refuse, Lose, IInv
<1>2. /\ i \in Guest /\ i \in DOMAIN items /\ calls[r].entry = items[i] /\ patch \in Patches /\ Wants(i, patch)
      /\ \A s \in Requests \ {r} : calls[s] # None => calls[s].item # i
  BY <1>1 DEF CallOK, Mutations
<1>3. /\ calls'[r] = None /\ \A s \in Requests \ {r} : calls'[s] = calls[s]
      /\ calls' \in [Requests -> Mutations \cup {None}]
  BY <1>1 DEF IInv
<1>4. CASE Succeed(r)
  <2>0. Settle(i, items[i], patch) /\ calls[r].stored /\ disturbed' = disturbed
    BY <1>2, <1>4 DEF Succeed
  <2>1. PageOK(items', nav', whole')
    BY <1>2, <2>0, SettleKeeps DEF IInv
  <2>2. PageOK(items, nav, whole)'
    BY <1>1, <2>1 DEF PageOK
  <2>3. /\ whole' = [whole EXCEPT ![i] = Promised(whole[i], patch)] /\ DOMAIN whole' = DOMAIN whole
        /\ i \in DOMAIN whole /\ whole'[i] = Promised(whole[i], patch)
        /\ \A j \in DOMAIN whole \ {i} : whole'[j] = whole[j]
    <3>1. i \in DOMAIN whole
      BY <1>2, InList DEF IInv, PageOK
    <3> QED
      BY <2>0, <3>1 DEF Settle
  <2>4. ASSUME NEW j \in DOMAIN items \ {i}
        PROVE  j \in DOMAIN items' /\ items'[j] = items[j]
    <3>1. items = ListOf(page, whole) /\ items' = ListOf(page, whole')
      BY <2>1 DEF IInv, PageOK
    <3>2. j \in DOMAIN whole' /\ whole'[j] = items[j] /\ (page # "my-items" => Belongs(page, whole'[j]))
      BY <2>3, <2>4, <3>1, InList
    <3> QED
      BY <3>1, <3>2 DEF ListOf
  <2>5. ASSUME NEW s \in Requests, calls'[s] # None
        PROVE  CallOK(s)'
    <3>1. CallOK(s) /\ s # r /\ calls'[s] = calls[s] /\ calls[s].item \in DOMAIN items \ {i}
      BY <1>2, <1>3, <2>5 DEF IInv, CallOK
    <3>2. calls[s].item \in DOMAIN items' /\ items'[calls[s].item] = items[calls[s].item]
      BY <2>4, <3>1
    <3>3. \A t \in Requests \ {s} : calls'[t] # None => calls'[t].item # calls'[s].item
      BY <1>3, <2>5, <3>1 DEF CallOK
    <3> QED
      BY <1>1, <2>5, <3>1, <3>2, <3>3 DEF CallOK, Wants
  <2>6. \A s \in Requests : CallOK(s)'
    BY <2>5 DEF CallOK
  <2>7. ASSUME NEW j \in (Guest \cap DOMAIN row) \ disturbed
        PROVE  /\ j \in DOMAIN whole' /\ (~Pending(j)' => whole'[j] = row[j])
               /\ \A s \in Requests : calls'[s] # None /\ calls'[s].item = j =>
                     row[j] = IF calls'[s].stored THEN Promised(whole'[j], calls'[s].patch) ELSE whole'[j]
    <3>1. /\ j \in DOMAIN whole /\ (~Pending(j) => whole[j] = row[j])
          /\ \A s \in Requests : calls[s] # None /\ calls[s].item = j =>
                row[j] = IF calls[s].stored THEN Promised(whole[j], calls[s].patch) ELSE whole[j]
      BY DEF IInv, StoredOK
    <3>2. CASE j = i
      <4>1. row[j] = whole'[j]
        BY <1>1, <2>0, <2>3, <3>1, <3>2
      <4>2. \A s \in Requests : calls'[s] # None => calls'[s].item # j
        BY <1>2, <1>3, <3>2
      <4> QED
        BY <2>3, <3>1, <4>1, <4>2
    <3>3. CASE j # i
      <4>1. whole'[j] = whole[j] /\ j \in DOMAIN whole'
        BY <2>3, <3>1, <3>3
      <4>2. Pending(j) => Pending(j)'
        BY <1>3, <3>3 DEF Pending
      <4>3. \A s \in Requests : calls'[s] # None => calls'[s] = calls[s] /\ calls[s] # None
        BY <1>3
      <4> QED
        BY <3>1, <4>1, <4>2, <4>3
    <3> QED
      BY <3>2, <3>3
  <2>8. StoredOK'
    BY <1>1, <2>0, <2>7 DEF StoredOK, Pending
  <2> QED
    BY <1>1, <1>3, <2>2, <2>6, <2>8 DEF IInv
<1>5. CASE Refuse(r) \/ Lose(r)
  <2>1. /\ UNCHANGED <<items, nav, whole>> /\ disturbed \subseteq disturbed'
        /\ ~calls[r].stored \/ i \in disturbed'
    BY <1>5 DEF Refuse, Lose
  <2>2. PageOK(items, nav, whole)'
    BY <1>1, <2>1 DEF IInv, PageOK
  <2>3. \A s \in Requests : calls'[s] # None => calls'[s] = calls[s] /\ calls[s] # None /\ CallOK(s) /\ s # r
    BY <1>3 DEF IInv
  <2>4. \A s \in Requests : CallOK(s)'
    BY <1>1, <2>1, <2>3 DEF CallOK, Wants
  <2>5. ASSUME NEW j \in (Guest \cap DOMAIN row) \ disturbed'
        PROVE  /\ j \in DOMAIN whole /\ (~Pending(j)' => whole[j] = row[j])
               /\ \A s \in Requests : calls'[s] # None /\ calls'[s].item = j =>
                     row[j] = IF calls'[s].stored THEN Promised(whole[j], calls'[s].patch) ELSE whole[j]
    <3>1. /\ j \in DOMAIN whole /\ (~Pending(j) => whole[j] = row[j])
          /\ \A s \in Requests : calls[s] # None /\ calls[s].item = j =>
                row[j] = IF calls[s].stored THEN Promised(whole[j], calls[s].patch) ELSE whole[j]
      BY <2>1 DEF IInv, StoredOK
    <3>2. CASE j = i
      BY <1>1, <2>1, <2>3, <2>5, <3>1, <3>2
    <3>3. CASE j # i
      <4>1. Pending(j) => Pending(j)'
        BY <1>3, <3>3 DEF Pending
      <4> QED
        BY <2>3, <3>1, <4>1
    <3> QED
      BY <3>2, <3>3
  <2>6. StoredOK'
    BY <1>1, <2>1, <2>5 DEF StoredOK, Pending
  <2> QED
    BY <1>1, <1>3, <2>2, <2>4, <2>6 DEF IInv
<1> QED
  BY <1>4, <1>5

\* Another tab changes a row, and the item is not asked about any more.
LEMMA ElsewhereIInv ==
    ASSUME IInv, NEW i \in Items, NEW patch \in Patches, Elsewhere(i, patch)
    PROVE  IInv'
<1>1. /\ UNCHANGED <<page, items, nav, calls, whole>> /\ i \in Guest /\ disturbed' = disturbed \cup {i}
      /\ row' = [row EXCEPT ![i][patch.field] = patch.value]
  BY DEF Elsewhere
<1>2. WardrobeOK(row)' /\ DOMAIN row' = DOMAIN row /\ \A j \in DOMAIN row \ {i} : row'[j] = row[j]
  BY <1>1, PatchedRow DEF IInv
<1>3. PageOK(items, nav, whole)' /\ \A r \in Requests : CallOK(r)'
  BY <1>1 DEF IInv, PageOK, CallOK, Wants
<1>4. StoredOK'
  BY <1>1, <1>2 DEF IInv, StoredOK, Pending
<1> QED
  BY <1>1, <1>2, <1>3, <1>4 DEF IInv

\* Every step keeps the invariant.
LEMMA NextIInv == IInv /\ [Next]_vars => IInv'
<1> SUFFICES ASSUME IInv, [Next]_vars
             PROVE  IInv'
  OBVIOUS
<1>1. ASSUME NEW p \in Pages, Open(p)
      PROVE  IInv'
  <2>1. WardrobeOK(row)'
    BY <1>1 DEF Open, IInv
  <2> QED
    BY <1>1, <2>1, RenderedIsOK DEF Open
<1>2. ASSUME NEW i \in Items, deleteItem(i)
      PROVE  IInv'
  <2>1. PageOK(items', nav', whole')
    BY <1>2, DeleteKeeps DEF IInv
  <2>2. /\ UNCHANGED <<row, page, calls, disturbed>> /\ i \notin Guest
        /\ \A j \in DOMAIN whole \ {i} : j \in DOMAIN whole' /\ whole'[j] = whole[j]
    BY <1>2 DEF deleteItem, Deletable, Without, Restrict
  <2> QED
    BY <2>1, <2>2, LocalChange
<1>3. ASSUME NEW i \in Items, addToCapsule(i)
      PROVE  IInv'
  <2>1. PageOK(items', nav', whole')
    BY <1>3, AddToCapsuleKeeps DEF IInv
  <2>2. /\ UNCHANGED <<row, page, calls, disturbed>> /\ i \notin Guest
        /\ \A j \in DOMAIN whole \ {i} : j \in DOMAIN whole' /\ whole'[j] = whole[j]
    BY <1>3 DEF addToCapsule
  <2> QED
    BY <2>1, <2>2, LocalChange
<1>4. ASSUME NEW i \in Items, NEW patch \in Patches, ClickLocal(i, patch)
      PROVE  IInv'
  <2>1. Wants(i, patch) /\ i \in DOMAIN items /\ i \notin Guest /\ Settle(i, items[i], patch)
    BY <1>4 DEF ClickLocal, Offers, Wants
  <2>2. PageOK(items', nav', whole')
    BY <2>1, SettleKeeps DEF IInv
  <2>3. /\ UNCHANGED <<row, page, calls, disturbed>>
        /\ \A j \in DOMAIN whole \ {i} : j \in DOMAIN whole' /\ whole'[j] = whole[j]
    BY <1>4, <2>1 DEF ClickLocal, Settle
  <2> QED
    BY <2>1, <2>2, <2>3, LocalChange
<1>5. CASE UNCHANGED <<row, page, items, nav, calls, whole, disturbed>>
  BY <1>5 DEF IInv, PageOK, CallOK, Wants, StoredOK, Pending
<1> QED
  BY <1>1, <1>2, <1>3, <1>4, <1>5, ClickGuestIInv, StoreIInv, AnsweredIInv, ElsewhereIInv
     DEF Next, openItem, closeDetail, vars

-----------------------------------------------------------------------------
(* The theorems *)

\* On every page, for any wardrobe and any number of calls under way, the counters are those of
\* the wardrobe as the user left it (the shells' navigation and wardrobe-statistics.ts).
THEOREM SpecCountersAgree == Spec => []CountersAgree
<1>1. IInv => CountersAgree
  <2> SUFFICES ASSUME IInv
               PROVE  CountersAgree
    OBVIOUS
  <2>0. items = ListOf(page, whole) /\ NavOK(nav, page, whole) /\ nav \in Navs /\ page \in Pages
    BY DEF IInv, PageOK, NavOK
  <2>1. CASE page = "my-items"
    BY <2>0, <2>1 DEF CountersAgree, Shown, ListOf
  <2>2. CASE page = "favorites"
    <3>1. DOMAIN items = FavoriteItems(whole)
      BY <2>0, <2>2 DEF ListOf, Belongs, FavoriteItems
    <3>2. Shown = [nav EXCEPT !.favorites = Cardinality(FavoriteItems(whole))]
      BY <2>2, <3>1 DEF Shown, Length
    <3> QED
      BY <2>0, <2>2, <3>2, CountsAre DEF CountersAgree, NavOK, Navs
  <2>3. CASE page \notin {"my-items", "favorites"}
    <3>1. Shown = nav
      BY <2>3 DEF Shown
    <3> QED
      BY <2>0, <2>3, <3>1, CountsAre DEF CountersAgree, NavOK, Navs
  <2> QED
    BY <2>1, <2>2, <2>3
<1> QED
  BY <1>1, InitIInv, NextIInv, PTL DEF Spec

\* Every page lists its own items and no other, in whatever order clicks are settled.
THEOREM SpecListsHoldTheirOwn == Spec => []ListsHoldTheirOwn
<1>1. IInv => ListsHoldTheirOwn
  BY SnapshotAgrees DEF IInv, PageOK, ListsHoldTheirOwn
<1> QED
  BY <1>1, InitIInv, NextIInv, PTL DEF Spec

\* What a page shows of a guest item that nobody else has changed is what the server has, once no
\* call for it is under way (useGuestItemMutation.ts).
THEOREM SpecUndisturbedIsStored == Spec => []UndisturbedIsStored
<1>1. IInv => UndisturbedIsStored
  BY DEF IInv, StoredOK, UndisturbedIsStored
<1> QED
  BY <1>1, InitIInv, NextIInv, PTL DEF Spec

=============================================================================
