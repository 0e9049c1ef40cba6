--------------------------- MODULE GuestSaveProofs ---------------------------
(***************************************************************************)
(* The safety properties of GuestSave, for any number of calls, accounts,  *)
(* transfers and presets.                                                  *)
(***************************************************************************)
EXTENDS GuestSave, WellFoundedInduction, TLAPS

\* Where a call can be once its input is known to be valid.
Running == {"insert", "compare", "items", "commit", "committing", "aborting"}

CallInv ==
    \A n \in Attempts :
        /\ pc[n] = "idle" => input[n] = NoInput /\ answer[n] = "none"
        /\ pc[n] # "idle" => input[n] \in Inputs
        /\ pc[n] \in Running => ValidSelection(input[n])
        /\ answer[n] = "ok" => pc[n] = "done"
        /\ pc[n] \in {"insert", "compare", "items", "commit"} => answer[n] = "none"
        /\ pc[n] = "committing" => answer[n] = "error"

\* An uncommitted transfer row is the only row with its key.
OpenInv ==
    \A n \in inserted :
        /\ pc[n] \in {"items", "commit", "committing", "aborting"}
        /\ \A row \in progress : row.transfer # Transfer(n)
        /\ \A m \in inserted : Transfer(m) = Transfer(n) => m = n

\* An uncommitted entry is the only one with its key, and precedes what is left to insert.
HeldInv ==
    /\ \A n \in Attempts \ inserted : held[n] = {} /\ todo[n] = {}
    /\ \A n \in inserted :
        /\ held[n] \cup todo[n] \subseteq PickedSet(input[n])
        /\ \A p \in held[n] :
              /\ ~Owns(wardrobe, input[n].user, p)
              /\ \A q \in todo[n] : p < q
              /\ \A m \in inserted :
                    p \in held[m] /\ input[m].user = input[n].user => m = n

\* The open transaction that inserted a transfer covers all of its presets.
CoverInv ==
    \A n \in inserted :
        /\ \A p \in PickedSet(input[n]) :
              p \in todo[n] \/ p \in held[n] \/ Owns(wardrobe, input[n].user, p)
        /\ pc[n] \in {"commit", "committing"} => todo[n] = {}

\* A call past the comparison that inserted nothing found its own transfer.
MatchInv ==
    \A n \in Attempts :
        pc[n] \in {"items", "commit", "committing"} /\ n \notin inserted =>
            \E row \in progress : row.transfer = Transfer(n) /\ SameSelection(row, input[n])

SavedInv ==
    \A n \in Attempts :
        pc[n] = "commit" =>
            /\ saved[n] \in Visible(n)
            /\ saved[n].transfer = Transfer(n)
            /\ SameSelection(saved[n], input[n])

IInv ==
    /\ TypeOK
    /\ CallInv
    /\ OpenInv
    /\ HeldInv
    /\ CoverInv
    /\ MatchInv
    /\ SavedInv
    /\ AckedIsStored
    /\ WardrobeIsUnionOfTransfers
    /\ KeysAreUnique

-----------------------------------------------------------------------------

\* The row a call inserts is one of the table's, and of the call's own selection.
LEMMA NewRowFacts ==
    ASSUME NEW n \in Attempts, NEW in \in Inputs
    PROVE  /\ NewRow(n, in) \in Rows
           /\ NewRow(n, in).transfer = in.transfer
           /\ NewRow(n, in).user = in.user
           /\ SameSelection(NewRow(n, in), in)
           /\ PickedSet(NewRow(n, in)) = PickedSet(in)
BY DEF NewRow, Inputs, Rows, SameSelection, PickedSet

\* Equal selections pick the same presets.
LEMMA SamePresets ==
    ASSUME NEW row, NEW in, SameSelection(row, in)
    PROVE  PickedSet(row) = PickedSet(in)
BY DEF SameSelection, PickedSet

\* A valid selection picks presets of the catalog.
LEMMA ValidPresets ==
    ASSUME NEW in, ValidSelection(in)
    PROVE  PickedSet(in) \subseteq Presets
BY DEF ValidSelection, PickedSet

\* The entry a save stores has the schema's type, owner and preset.
LEMMA NewItemFacts ==
    ASSUME NEW u \in Users, NEW p \in Presets
    PROVE  NewItem(u, p) \in ItemRows /\ NewItem(u, p).user = u /\ NewItem(u, p).preset = p
BY StatusAssumption DEF NewItem, ItemRows

\* An edit keeps the entry's key and its type.
LEMMA PatchedFacts ==
    ASSUME NEW i \in ItemRows, NEW patch \in Patches, ValidPatch(patch)
    PROVE  /\ Patched(i, patch) \in ItemRows
           /\ Patched(i, patch).user = i.user /\ Patched(i, patch).preset = i.preset
BY PatchAssumption DEF Patched, ItemRows, ValidPatch

\* The empty tables meet the invariant.
LEMMA InitIInv == Init => IInv
BY DEF Init, IInv, TypeOK, Phases, Answers, CallInv, OpenInv, HeldInv, CoverInv, MatchInv,
       SavedInv, Running, AckedIsStored, WardrobeIsUnionOfTransfers, KeysAreUnique, Owns

\* A request that comes in holds nothing yet.
LEMMA ReceiveIInv ==
    ASSUME IInv, NEW n \in Attempts, NEW in \in Inputs, Receive(n, in)
    PROVE  IInv'
<1> USE DEF IInv
<1>1. n \notin inserted
  BY DEF Receive, OpenInv
<1>2. \A m \in Attempts \ {n} : input'[m] = input[m] /\ pc'[m] = pc[m] /\ answer'[m] = answer[m]
  BY DEF Receive, Reply, Goto, TypeOK
<1>3. /\ input'[n] = in /\ input' \in [Attempts -> Inputs \cup {NoInput}]
      /\ pc'[n] \in {"insert", "done"} /\ (pc'[n] = "insert" => ValidSelection(in))
      /\ answer[n] = "none"
      /\ answer'[n] = "none" \/ (answer'[n] = "invalid" /\ pc'[n] = "done")
  BY DEF Receive, Reply, Goto, TypeOK, CallInv
<1>4. UNCHANGED <<progress, wardrobe, inserted, held, todo, saved>>
  BY DEF Receive, table
<1>5. TypeOK'
  BY <1>3, <1>4 DEF TypeOK, Receive, Reply, Goto, Phases, Answers
<1>6. CallInv'
  BY <1>2, <1>3 DEF CallInv, Running
<1>7. OpenInv' /\ CoverInv'
  BY <1>1, <1>2, <1>4 DEF OpenInv, CoverInv, Transfer, TypeOK
<1>8. HeldInv'
  BY <1>1, <1>2, <1>4 DEF HeldInv, TypeOK
<1>9. MatchInv' /\ SavedInv'
  BY <1>1, <1>2, <1>3, <1>4 DEF MatchInv, SavedInv, Visible, Transfer
<1>10. AckedIsStored'
  BY <1>2, <1>3, <1>4 DEF AckedIsStored
<1>11. WardrobeIsUnionOfTransfers' /\ KeysAreUnique'
  BY <1>4 DEF WardrobeIsUnionOfTransfers, KeysAreUnique
<1> QED
  BY <1>5, <1>6, <1>7, <1>8, <1>9, <1>10, <1>11

\* A call inserts the row of its transfer, or finds a committed one.
LEMMA InsertTransferIInv ==
    ASSUME IInv, NEW n \in Attempts, InsertTransfer(n)
    PROVE  IInv'
<1> USE DEF IInv
<1>1. input[n] \in Inputs /\ ValidSelection(input[n]) /\ answer[n] # "ok" /\ n \notin inserted
  BY DEF InsertTransfer, CallInv, Running, OpenInv
<1>2. UNCHANGED <<input, progress, wardrobe, held, saved, answer>>
  BY DEF InsertTransfer, table
<1>3. /\ pc[n] = "insert" /\ pc' = [pc EXCEPT ![n] = pc'[n]] /\ pc'[n] \in {"compare", "items"}
      /\ \A m \in Attempts \ {n} : pc'[m] = pc[m]
  BY DEF InsertTransfer, Goto, TypeOK
<1>4. CASE \E row \in progress : row.transfer = Transfer(n)
  <2>1. pc'[n] = "compare" /\ UNCHANGED <<inserted, todo>>
    BY <1>4 DEF InsertTransfer, Goto, TypeOK
  <2>2. TypeOK' /\ CallInv'
    BY <1>1, <1>2, <1>3, <2>1 DEF TypeOK, Phases, CallInv, Running
  <2>3. OpenInv' /\ HeldInv' /\ CoverInv'
    BY <1>1, <1>2, <1>3, <2>1 DEF OpenInv, HeldInv, CoverInv, Transfer, TypeOK
  <2>4. MatchInv' /\ SavedInv'
    BY <1>1, <1>2, <1>3, <2>1 DEF MatchInv, SavedInv, Visible, Transfer
  <2>5. AckedIsStored' /\ WardrobeIsUnionOfTransfers' /\ KeysAreUnique'
    BY <1>2 DEF AckedIsStored, WardrobeIsUnionOfTransfers, KeysAreUnique
  <2> QED
    BY <2>2, <2>3, <2>4, <2>5
<1>5. CASE \A row \in progress : row.transfer # Transfer(n)
  <2>1. /\ pc'[n] = "items" /\ inserted' = inserted \cup {n}
        /\ todo' = [todo EXCEPT ![n] = PickedSet(input[n])]
    BY <1>5 DEF InsertTransfer, Goto, TypeOK
  <2>2. \A m \in inserted : Transfer(m) # Transfer(n)
    BY <1>1 DEF InsertTransfer, TransferWait
  <2>3. TypeOK' /\ CallInv'
    BY <1>1, <1>2, <1>3, <2>1, ValidPresets DEF TypeOK, Phases, CallInv, Running
  <2>4. OpenInv'
    BY <1>2, <1>3, <1>5, <2>1, <2>2 DEF OpenInv, Transfer, TypeOK
  <2>5. HeldInv'
    BY <1>1, <1>2, <2>1 DEF HeldInv, TypeOK
  <2>6. CoverInv'
    BY <1>1, <1>2, <1>3, <2>1 DEF CoverInv, TypeOK
  <2>7. MatchInv' /\ SavedInv'
    BY <1>1, <1>2, <1>3, <2>1 DEF MatchInv, SavedInv, Visible, Transfer
  <2>8. AckedIsStored' /\ WardrobeIsUnionOfTransfers' /\ KeysAreUnique'
    BY <1>2 DEF AckedIsStored, WardrobeIsUnionOfTransfers, KeysAreUnique
  <2> QED
    BY <2>3, <2>4, <2>5, <2>6, <2>7, <2>8
<1> QED
  BY <1>4, <1>5

\* A retry compares its selection with the committed row and inserts nothing.
LEMMA CompareTransferIInv ==
    ASSUME IInv, NEW n \in Attempts, CompareTransfer(n)
    PROVE  IInv'
<1> USE DEF IInv
<1>1. n \notin inserted /\ pc[n] = "compare" /\ answer[n] # "ok"
  BY DEF CompareTransfer, OpenInv, CallInv
<1>2. UNCHANGED <<input, progress, wardrobe, inserted, held, todo, saved>>
  BY DEF CompareTransfer, table
<1>3. \A m \in Attempts \ {n} : pc'[m] = pc[m] /\ answer'[m] = answer[m]
  BY DEF CompareTransfer, Reply, Goto, TypeOK
<1>4. \/ /\ pc'[n] = "items" /\ answer'[n] = answer[n]
         /\ \E row \in progress : row.transfer = Transfer(n) /\ SameSelection(row, input[n])
      \/ pc'[n] = "done" /\ answer'[n] = "conflict"
  BY DEF CompareTransfer, Reply, Goto, TypeOK
<1>5. TypeOK'
  BY <1>2 DEF TypeOK, CompareTransfer, Reply, Goto, Phases, Answers
<1>6. CallInv'
  BY <1>1, <1>2, <1>3, <1>4 DEF CallInv, Running
<1>7. OpenInv' /\ HeldInv' /\ CoverInv'
  BY <1>1, <1>2, <1>3 DEF OpenInv, HeldInv, CoverInv, Transfer, TypeOK
<1>8. MatchInv' /\ SavedInv'
  BY <1>1, <1>2, <1>3, <1>4 DEF MatchInv, SavedInv, Visible, Transfer
<1>9. AckedIsStored' /\ WardrobeIsUnionOfTransfers' /\ KeysAreUnique'
  BY <1>1, <1>2, <1>3, <1>4 DEF AckedIsStored, WardrobeIsUnionOfTransfers, KeysAreUnique
<1> QED
  BY <1>5, <1>6, <1>7, <1>8, <1>9

\* An entry waits for the commit of its call, or is in the wardrobe already.
LEMMA InsertItemIInv ==
    ASSUME IInv, NEW n \in Attempts, NEW p \in todo[n], InsertItem(n, p)
    PROVE  IInv'
<1> USE DEF IInv
<1>1. n \in inserted /\ p \in PickedSet(input[n]) /\ input[n] \in Inputs
  BY DEF HeldInv, InsertItem, CallInv
<1>2. UNCHANGED <<pc, input, progress, wardrobe, inserted, saved, answer>>
  BY DEF InsertItem, table
<1>3. todo' = [todo EXCEPT ![n] = todo[n] \ {p}] /\ todo'[n] = todo[n] \ {p}
  BY DEF InsertItem, TypeOK
<1>4. p \in Presets /\ \A q \in todo[n] : p <= q /\ q \in Nat
  BY CatalogAssumption DEF InsertItem, NextPreset, TypeOK, Presets
<1>5. \A m \in inserted \ {n} : p \in held[m] => input[m].user # input[n].user
  BY DEF InsertItem, ItemWait, TypeOK
<1>6. CallInv' /\ OpenInv' /\ MatchInv' /\ SavedInv'
  BY <1>2 DEF CallInv, OpenInv, MatchInv, SavedInv, Visible, Transfer
<1>7. AckedIsStored' /\ WardrobeIsUnionOfTransfers' /\ KeysAreUnique'
  BY <1>2 DEF AckedIsStored, WardrobeIsUnionOfTransfers, KeysAreUnique
<1>8. CASE Owns(wardrobe, input[n].user, p)
  <2>1. held' = held
    BY <1>8 DEF InsertItem
  <2>2. TypeOK'
    BY <1>2, <1>3, <2>1 DEF TypeOK
  <2>3. HeldInv'
    BY <1>2, <1>3, <2>1 DEF HeldInv, TypeOK
  <2>4. CoverInv'
    BY <1>2, <1>3, <1>8, <2>1 DEF CoverInv, TypeOK
  <2> QED
    BY <1>6, <1>7, <2>2, <2>3, <2>4
<1>9. CASE ~Owns(wardrobe, input[n].user, p)
  <2>1. held' = [held EXCEPT ![n] = held[n] \cup {p}] /\ held'[n] = held[n] \cup {p}
    BY <1>9 DEF InsertItem, TypeOK
  <2>2. TypeOK'
    BY <1>2, <1>3, <1>4, <2>1 DEF TypeOK
  <2>3. \A q \in todo'[n] : q \in todo[n] /\ p < q
    BY <1>3, <1>4
  <2>4. HeldInv'
    <3>1. \A m \in Attempts \ {n} : held'[m] = held[m] /\ todo'[m] = todo[m]
      BY <1>3, <2>1 DEF TypeOK
    <3>2. \A m \in Attempts \ inserted : held'[m] = {} /\ todo'[m] = {}
      BY <1>1, <3>1 DEF HeldInv
    <3>3. \A m \in inserted : held'[m] \cup todo'[m] \subseteq PickedSet(input[m])
      BY <1>1, <1>3, <2>1, <3>1 DEF HeldInv, TypeOK
    <3>4. \A m \in inserted : \A q \in held'[m] : ~Owns(wardrobe, input[m].user, q)
      BY <1>9, <2>1, <3>1 DEF HeldInv, TypeOK
    <3>5. \A m \in inserted : \A q \in held'[m] : \A r \in todo'[m] : q < r
      BY <1>3, <2>1, <2>3, <3>1 DEF HeldInv, TypeOK
    <3>6. \A m, k \in inserted : \A q \in held'[m] :
             q \in held'[k] /\ input[k].user = input[m].user => k = m
      BY <1>5, <2>1, <3>1 DEF HeldInv, TypeOK
    <3> QED
      BY <1>2, <3>2, <3>3, <3>4, <3>5, <3>6 DEF HeldInv
  <2>5. CoverInv'
    BY <1>2, <1>3, <2>1 DEF CoverInv, TypeOK
  <2> QED
    BY <1>6, <1>7, <2>2, <2>4, <2>5
<1> QED
  BY <1>8, <1>9

\* The row a call reads back is the one of its transfer.
LEMMA SelectSavedIInv ==
    ASSUME IInv, NEW n \in Attempts, SelectSaved(n)
    PROVE  IInv'
<1> USE DEF IInv
<1>1. UNCHANGED <<input, progress, wardrobe, inserted, held, todo, answer>>
  BY DEF SelectSaved, table
<1>2. /\ pc[n] = "items" /\ todo[n] = {} /\ pc'[n] = "commit"
      /\ pc' \in [Attempts -> Phases]
      /\ \A m \in Attempts \ {n} : pc'[m] = pc[m] /\ saved'[m] = saved[m]
  BY DEF SelectSaved, Goto, TypeOK, Phases
<1>3. input[n] \in Inputs /\ ValidSelection(input[n]) /\ answer[n] # "ok"
  BY <1>2 DEF CallInv, Running
<1>4. PICK row \in Visible(n) :
        /\ row.transfer = Transfer(n) /\ row.user = input[n].user
        /\ saved' = [saved EXCEPT ![n] = row]
  BY DEF SelectSaved
<1>5. row \in Rows /\ SameSelection(row, input[n])
  <2>1. CASE n \in inserted
    <3>1. row = NewRow(n, input[n])
      BY <1>4, <2>1 DEF OpenInv, Visible
    <3> QED
      BY <1>3, <3>1, NewRowFacts
  <2>2. CASE n \notin inserted
    <3>1. row \in progress
      BY <1>4, <2>2 DEF Visible
    <3> QED
      BY <1>2, <1>4, <2>2, <3>1 DEF MatchInv, KeysAreUnique, TypeOK
  <2> QED
    BY <2>1, <2>2
<1>6. saved'[n] = row
  BY <1>4 DEF TypeOK
<1>7. TypeOK' /\ CallInv'
  BY <1>1, <1>2, <1>3, <1>4, <1>5 DEF TypeOK, CallInv, Running
<1>8. OpenInv' /\ HeldInv' /\ CoverInv'
  BY <1>1, <1>2 DEF OpenInv, HeldInv, CoverInv, Transfer, TypeOK
<1>9. MatchInv' /\ SavedInv'
  BY <1>1, <1>2, <1>4, <1>5, <1>6 DEF MatchInv, SavedInv, Visible, Transfer
<1>10. AckedIsStored'
  BY <1>1, <1>2, <1>3 DEF AckedIsStored
<1>11. WardrobeIsUnionOfTransfers' /\ KeysAreUnique'
  BY <1>1 DEF WardrobeIsUnionOfTransfers, KeysAreUnique
<1> QED
  BY <1>7, <1>8, <1>9, <1>10, <1>11

\* The steps that end a transaction without publishing it touch neither table.
LEMMA FailIInv ==
    ASSUME IInv, NEW n \in Attempts, Fail(n)
    PROVE  IInv'
<1> USE DEF IInv
<1>1. UNCHANGED <<input, progress, wardrobe, inserted, held, todo, saved>>
  BY DEF Fail, table
<1>2. /\ pc[n] \in {"insert", "compare", "items", "commit"}
      /\ pc'[n] \in {"committing", "aborting"} /\ (pc'[n] = "committing" => pc[n] = "commit")
      /\ answer'[n] = "error"
      /\ \A m \in Attempts \ {n} : pc'[m] = pc[m] /\ answer'[m] = answer[m]
  BY DEF Fail, Goto, TypeOK
<1>3. TypeOK'
  BY <1>1 DEF TypeOK, Fail, Goto, Phases, Answers
<1>4. CallInv'
  BY <1>1, <1>2 DEF CallInv, Running
<1>5. OpenInv' /\ HeldInv' /\ CoverInv'
  BY <1>1, <1>2 DEF OpenInv, HeldInv, CoverInv, Transfer, TypeOK
<1>6. MatchInv' /\ SavedInv'
  BY <1>1, <1>2 DEF MatchInv, SavedInv, Visible, Transfer
<1>7. AckedIsStored'
  BY <1>1, <1>2 DEF AckedIsStored
<1>8. WardrobeIsUnionOfTransfers' /\ KeysAreUnique'
  BY <1>1 DEF WardrobeIsUnionOfTransfers, KeysAreUnique
<1> QED
  BY <1>3, <1>4, <1>5, <1>6, <1>7, <1>8

\* A call that is rolled back leaves nothing of its own.
LEMMA RollBackIInv ==
    ASSUME IInv, NEW n \in Attempts, RollBack(n)
    PROVE  IInv'
<1> USE DEF IInv
<1>1. UNCHANGED <<input, progress, wardrobe, saved, answer>>
  BY DEF RollBack, table
<1>2. /\ pc[n] \in {"aborting", "committing"} /\ pc'[n] = "done"
      /\ \A m \in Attempts \ {n} : pc'[m] = pc[m] /\ held'[m] = held[m] /\ todo'[m] = todo[m]
      /\ inserted' = inserted \ {n} /\ held'[n] = {} /\ todo'[n] = {}
  BY DEF RollBack, Release, Goto, TypeOK
<1>3. TypeOK'
  BY <1>1 DEF TypeOK, RollBack, Release, Goto, Phases
<1>4. CallInv'
  BY <1>1, <1>2 DEF CallInv, Running
<1>5. OpenInv' /\ HeldInv' /\ CoverInv'
  BY <1>1, <1>2 DEF OpenInv, HeldInv, CoverInv, Transfer, TypeOK
<1>6. MatchInv' /\ SavedInv'
  BY <1>1, <1>2 DEF MatchInv, SavedInv, Visible, Transfer
<1>7. AckedIsStored' /\ WardrobeIsUnionOfTransfers' /\ KeysAreUnique'
  BY <1>1 DEF AckedIsStored, WardrobeIsUnionOfTransfers, KeysAreUnique
<1> QED
  BY <1>3, <1>4, <1>5, <1>6, <1>7

\* What a COMMIT that takes effect does to everything but the caller's answer.
LEMMA PublishFacts ==
    ASSUME IInv, NEW n \in Attempts, pc[n] \in {"commit", "committing"},
           Publish(n), Release(n), Goto(n, "done"), UNCHANGED <<input, saved>>
    PROVE  /\ progress \subseteq progress' /\ progress' \subseteq Rows /\ wardrobe' \subseteq ItemRows
           /\ \A u, p : Owns(wardrobe, u, p) => Owns(wardrobe', u, p)
           /\ \A p \in PickedSet(input[n]) : Owns(wardrobe', input[n].user, p)
           /\ OpenInv' /\ HeldInv' /\ CoverInv' /\ MatchInv' /\ SavedInv'
           /\ WardrobeIsUnionOfTransfers' /\ KeysAreUnique'
<1> USE DEF IInv
<1>1. /\ pc'[n] = "done" /\ inserted' = inserted \ {n} /\ held'[n] = {} /\ todo'[n] = {}
      /\ \A m \in Attempts \ {n} : pc'[m] = pc[m] /\ held'[m] = held[m] /\ todo'[m] = todo[m]
  BY DEF Release, Goto, TypeOK
<1>2. input[n] \in Inputs /\ ValidSelection(input[n]) /\ input[n].user \in Users
  BY DEF CallInv, Running, Inputs
<1>3. held[n] \subseteq Presets
  BY DEF TypeOK
<1>4. wardrobe' = wardrobe \cup {NewItem(input[n].user, p) : p \in held[n]}
  BY DEF Publish
<1>5. \A u, p : Owns(wardrobe', u, p)
                  <=> Owns(wardrobe, u, p) \/ (u = input[n].user /\ p \in held[n])
  BY <1>2, <1>3, <1>4, NewItemFacts DEF Owns
<1>6. wardrobe' \subseteq ItemRows
  BY <1>2, <1>3, <1>4, NewItemFacts DEF TypeOK
<1>7. \A i, j \in wardrobe' : i.user = j.user /\ i.preset = j.preset => i = j
  <2>1. \A i \in wardrobe : i.user = input[n].user => i.preset \notin held[n]
    BY DEF HeldInv, Owns
  <2>2. \A i \in wardrobe' \ wardrobe :
           \E p \in held[n] : i = NewItem(input[n].user, p) /\ i.user = input[n].user /\ i.preset = p
    BY <1>2, <1>3, <1>4, NewItemFacts
  <2> QED
    BY <2>1, <2>2 DEF KeysAreUnique
<1>8. CASE n \notin inserted
  <2>1. progress' = progress /\ held[n] = {} /\ inserted' = inserted
    BY <1>1, <1>8 DEF Publish, Visible, HeldInv
  <2>2. wardrobe' = wardrobe
    BY <1>4, <2>1
  <2>3. \A p \in PickedSet(input[n]) : Owns(wardrobe', input[n].user, p)
    <3>1. PICK row \in progress : SameSelection(row, input[n])
      BY <1>8 DEF MatchInv
    <3>2. PickedSet(row) = PickedSet(input[n]) /\ row.user = input[n].user
      BY <3>1, SamePresets DEF SameSelection
    <3>3. PickedSet(input[n]) \subseteq Presets
      BY <1>2, ValidPresets
    <3> QED
      BY <1>2, <2>2, <3>2, <3>3 DEF WardrobeIsUnionOfTransfers
  <2>4. OpenInv' /\ HeldInv' /\ CoverInv'
    BY <1>1, <1>8, <2>1, <2>2 DEF OpenInv, HeldInv, CoverInv, Transfer, TypeOK
  <2>5. MatchInv' /\ SavedInv'
    BY <1>1, <2>1 DEF MatchInv, SavedInv, Visible, Transfer
  <2>6. WardrobeIsUnionOfTransfers' /\ KeysAreUnique'
    BY <2>1, <2>2 DEF WardrobeIsUnionOfTransfers, KeysAreUnique
  <2> QED
    BY <1>5, <1>6, <2>1, <2>3, <2>4, <2>5, <2>6 DEF TypeOK
<1>9. CASE n \in inserted
  <2> DEFINE new == NewRow(n, input[n])
  <2>1. progress' = progress \cup {new}
    BY <1>9 DEF Publish, Visible
  <2>2. /\ new \in Rows /\ new.transfer = Transfer(n) /\ new.user = input[n].user
        /\ PickedSet(new) = PickedSet(input[n])
    BY <1>2, NewRowFacts DEF Transfer
  <2> HIDE DEF new
  <2>3. todo[n] = {} /\ held[n] \subseteq PickedSet(input[n])
    BY <1>9 DEF CoverInv, HeldInv
  <2>4. \A p \in PickedSet(input[n]) : Owns(wardrobe', input[n].user, p)
    BY <1>5, <1>9, <2>3 DEF CoverInv
  <2>5. KeysAreUnique'
    BY <1>7, <1>9, <2>1, <2>2 DEF KeysAreUnique, OpenInv
  <2>6. WardrobeIsUnionOfTransfers'
    <3> SUFFICES ASSUME NEW u \in Users, NEW p \in Presets
                 PROVE  Owns(wardrobe', u, p)
                          <=> \E row \in progress' : row.user = u /\ p \in PickedSet(row)
      BY DEF WardrobeIsUnionOfTransfers
    <3>1. Owns(wardrobe, u, p) <=> \E row \in progress : row.user = u /\ p \in PickedSet(row)
      BY DEF WardrobeIsUnionOfTransfers
    <3>2. CASE u = input[n].user /\ p \in PickedSet(input[n])
      BY <2>1, <2>2, <2>4, <3>2
    <3>3. CASE ~(u = input[n].user /\ p \in PickedSet(input[n]))
      BY <1>5, <2>1, <2>2, <2>3, <3>1, <3>3
    <3> QED
      BY <3>2, <3>3
  <2>7. OpenInv'
    BY <1>1, <1>9, <2>1, <2>2 DEF OpenInv, Transfer, TypeOK
  <2>8. HeldInv'
    <3>1. \A m \in inserted' : \A p \in held[m] : ~Owns(wardrobe', input[m].user, p)
      BY <1>1, <1>5, <1>9 DEF HeldInv
    <3>2. \A m \in Attempts \ inserted' : held'[m] = {} /\ todo'[m] = {}
      BY <1>1 DEF HeldInv
    <3>3. \A m \in inserted' : m \in inserted /\ held'[m] = held[m] /\ todo'[m] = todo[m]
      BY <1>1 DEF TypeOK
    <3> QED
      BY <3>1, <3>2, <3>3 DEF HeldInv
  <2>9. CoverInv'
    BY <1>1, <1>5 DEF CoverInv, TypeOK
  <2>10. MatchInv' /\ SavedInv'
    BY <1>1, <2>1 DEF MatchInv, SavedInv, Visible, Transfer
  <2> QED
    BY <1>5, <1>6, <2>1, <2>2, <2>4, <2>5, <2>6, <2>7, <2>8, <2>9, <2>10 DEF TypeOK
<1> QED
  BY <1>8, <1>9

\* A commit makes the rows of its call everybody's.
LEMMA CommitIInv ==
    ASSUME IInv, NEW n \in Attempts, Commit(n)
    PROVE  IInv'
<1> USE DEF IInv
<1>1. /\ progress \subseteq progress' /\ progress' \subseteq Rows /\ wardrobe' \subseteq ItemRows
      /\ \A u, p : Owns(wardrobe, u, p) => Owns(wardrobe', u, p)
      /\ \A p \in PickedSet(input[n]) : Owns(wardrobe', input[n].user, p)
      /\ OpenInv' /\ HeldInv' /\ CoverInv' /\ MatchInv' /\ SavedInv'
      /\ WardrobeIsUnionOfTransfers' /\ KeysAreUnique'
  BY PublishFacts DEF Commit, Reply
<1>2. /\ pc[n] = "commit" /\ pc'[n] = "done" /\ answer'[n] = "ok" /\ input' = input /\ saved' = saved
      /\ progress' = Visible(n)
      /\ \A m \in Attempts \ {n} : pc'[m] = pc[m] /\ answer'[m] = answer[m]
  BY DEF Commit, Reply, Goto, Publish, TypeOK
<1>3. TypeOK'
  BY <1>1, <1>2 DEF TypeOK, Commit, Reply, Release, Goto, Phases, Answers
<1>4. CallInv'
  BY <1>2 DEF CallInv, Running
<1>5. AckedIsStored'
  <2>1. saved[n] \in progress' /\ saved[n].transfer = input[n].transfer /\ SameSelection(saved[n], input[n])
    BY <1>2 DEF SavedInv, Transfer
  <2> QED
    BY <1>1, <1>2, <2>1 DEF AckedIsStored
<1> QED
  BY <1>1, <1>3, <1>4, <1>5

\* So does a commit whose answer is lost.
LEMMA CommitUnseenIInv ==
    ASSUME IInv, NEW n \in Attempts, CommitUnseen(n)
    PROVE  IInv'
<1> USE DEF IInv
<1>1. /\ progress \subseteq progress' /\ progress' \subseteq Rows /\ wardrobe' \subseteq ItemRows
      /\ \A u, p : Owns(wardrobe, u, p) => Owns(wardrobe', u, p)
      /\ OpenInv' /\ HeldInv' /\ CoverInv' /\ MatchInv' /\ SavedInv'
      /\ WardrobeIsUnionOfTransfers' /\ KeysAreUnique'
  BY PublishFacts DEF CommitUnseen
<1>2. /\ pc[n] = "committing" /\ pc'[n] = "done" /\ input' = input /\ saved' = saved /\ answer' = answer
      /\ \A m \in Attempts \ {n} : pc'[m] = pc[m]
  BY DEF CommitUnseen, Goto, TypeOK
<1>3. TypeOK'
  BY <1>1, <1>2 DEF TypeOK, CommitUnseen, Release, Goto, Phases
<1>4. CallInv'
  BY <1>2 DEF CallInv, Running
<1>5. AckedIsStored'
  BY <1>1, <1>2 DEF AckedIsStored
<1> QED
  BY <1>1, <1>3, <1>4, <1>5

\* An edit of an item changes its value only.
LEMMA UpdateIInv ==
    ASSUME IInv, NEW u \in Users, NEW i \in wardrobe, NEW patch \in Patches, Update(u, i, patch)
    PROVE  IInv'
<1> USE DEF IInv
<1>1. UNCHANGED <<pc, input, progress, inserted, held, todo, saved, answer>>
  BY DEF Update
<1>2. /\ wardrobe' = (wardrobe \ {i}) \cup {Patched(i, patch)}
      /\ Patched(i, patch) \in ItemRows
      /\ Patched(i, patch).user = i.user /\ Patched(i, patch).preset = i.preset
  BY PatchedFacts DEF Update, TypeOK
<1>3. \A v, p : Owns(wardrobe', v, p) <=> Owns(wardrobe, v, p)
  BY <1>2 DEF Owns
<1>4. KeysAreUnique'
  BY <1>1, <1>2 DEF KeysAreUnique
<1>5. TypeOK'
  BY <1>1, <1>2 DEF TypeOK
<1>6. CallInv' /\ OpenInv' /\ MatchInv' /\ SavedInv'
  BY <1>1 DEF CallInv, OpenInv, MatchInv, SavedInv, Visible, Transfer
<1>7. HeldInv' /\ CoverInv'
  BY <1>1, <1>3 DEF HeldInv, CoverInv
<1>8. AckedIsStored' /\ WardrobeIsUnionOfTransfers'
  BY <1>1, <1>3 DEF AckedIsStored, WardrobeIsUnionOfTransfers
<1> QED
  BY <1>4, <1>5, <1>6, <1>7, <1>8

\* The invariant is about the state alone.
LEMMA StutterIInv ==
    ASSUME IInv, UNCHANGED vars
    PROVE  IInv'
BY DEF vars, table, IInv, TypeOK, CallInv, OpenInv, HeldInv, CoverInv, MatchInv, SavedInv, Visible,
       Transfer, AckedIsStored, WardrobeIsUnionOfTransfers, KeysAreUnique

\* Every step of the API keeps the invariant.
LEMMA NextIInv == IInv /\ [Next]_vars => IInv'
<1> SUFFICES ASSUME IInv, [Next]_vars PROVE IInv'
  OBVIOUS
<1>1. CASE \E n \in Attempts : \E in \in Inputs : Receive(n, in)
  BY <1>1, ReceiveIInv
<1>2. CASE \E n \in Attempts : Step(n)
  BY <1>2, InsertTransferIInv, CompareTransferIInv, InsertItemIInv, SelectSavedIInv, CommitIInv,
     RollBackIInv DEF Step
<1>3. CASE \E n \in Attempts : Fail(n) \/ CommitUnseen(n)
  BY <1>3, FailIInv, CommitUnseenIInv
<1>4. CASE \E u \in Users : \E i \in wardrobe : \E patch \in Patches : Update(u, i, patch)
  BY <1>4, UpdateIInv
<1>5. CASE UNCHANGED vars
  BY <1>5, StutterIInv
<1> QED
  BY <1>1, <1>2, <1>3, <1>4, <1>5 DEF Next

\* The invariant holds in every state.
THEOREM SpecIInv == Spec => []IInv
BY InitIInv, NextIInv, PTL DEF Spec

-----------------------------------------------------------------------------

\* Type correctness of the save transactions.
THEOREM SpecTypeOK == Spec => []TypeOK
<1>1. IInv => TypeOK
  BY DEF IInv
<1> QED
  BY <1>1, SpecIInv, PTL

\* A saved answer names a stored row of the caller with the selection sent, all of whose
\* presets are in the caller's wardrobe, in every state from then on.
THEOREM SpecAckedIsStored == Spec => []AckedIsStored
<1>1. IInv => AckedIsStored
  BY DEF IInv
<1> QED
  BY <1>1, SpecIInv, PTL

\* All saved answers to one transfer name one row and went to one account.
THEOREM SpecRetriesAgree == Spec => []RetriesAgree
<1>1. IInv => RetriesAgree
  BY DEF IInv, AckedIsStored, KeysAreUnique, SameSelection, RetriesAgree
<1> QED
  BY <1>1, SpecIInv, PTL

\* A wardrobe is the union of its owner's transfers: nothing is half saved.
THEOREM SpecWardrobeIsUnionOfTransfers == Spec => []WardrobeIsUnionOfTransfers
<1>1. IInv => WardrobeIsUnionOfTransfers
  BY DEF IInv
<1> QED
  BY <1>1, SpecIInv, PTL

\* The two unique keys hold although the inserts are concurrent.
THEOREM SpecKeysAreUnique == Spec => []KeysAreUnique
<1>1. IInv => KeysAreUnique
  BY DEF IInv
<1> QED
  BY <1>1, SpecIInv, PTL

\* A non-empty set of numbers up to a bound has a greatest element.
LEMMA GreatestUpTo ==
    ASSUME NEW N \in Nat, NEW W \in SUBSET (1..N), W # {}
    PROVE  \E g \in W : \A w \in W : w <= g
<1> DEFINE Gaps == {N - w : w \in W}
           Less == {ss \in Nat \X Nat : ss[1] < ss[2]}
<1>1. \A w \in W : w \in Nat /\ w <= N /\ N - w \in Nat
  OBVIOUS
<1>2. Gaps \subseteq Nat /\ Gaps # {}
  BY <1>1
<1>3. IsWellFoundedOn(Less, Nat)
  BY NatLessThanWellFounded DEF OpToRel
<1>4. PICK least \in Gaps : \A gap \in Gaps : <<gap, least>> \notin Less
  <2> HIDE DEF Gaps, Less
  <2> QED
    BY <1>2, <1>3, WFMin
<1>5. PICK g \in W : least = N - g
  OBVIOUS
<1>6. ASSUME NEW w \in W PROVE w <= g
  <2>1. N - w \in Gaps
    OBVIOUS
  <2>2. ~(N - w < N - g)
    BY <1>1, <1>4, <1>5, <2>1
  <2> QED
    BY <1>1, <2>2
<1> QED
  BY <1>6

\* Waiting calls hold only entries smaller than the one they wait for, so the entries a
\* circle of waiting calls waits for would have no greatest one.
LEMMA IInvNoWaitCycle == IInv => NoWaitCycle
<1> SUFFICES ASSUME IInv, NEW S \in SUBSET Attempts, S # {},
                    \A m \in S : \E n \in S : WaitsFor(m, n)
             PROVE  FALSE
  BY DEF NoWaitCycle
<1> USE DEF IInv
<1>1. \A m, n \in S : WaitsFor(m, n) =>
        /\ n \in inserted
        /\ \/ pc[m] = "insert"
           \/ pc[m] = "items" /\ \E p \in held[n] : NextPreset(m, p)
  BY DEF WaitsFor, TransferWait, ItemWait, HeldInv, TypeOK
<1>2. \A n \in S : n \in inserted => pc[n] # "insert"
  BY DEF OpenInv
<1> DEFINE W == {p \in Presets : \E n \in S : NextPreset(n, p) /\ n \in inserted /\ pc[n] = "items"}
<1>3. \A n \in S : n \in inserted =>
         \E k \in S : \E p \in held[k] : NextPreset(n, p) /\ k \in inserted /\ pc[n] = "items"
  BY <1>1, <1>2
<1>4. W # {}
  <2>1. PICK n \in S : n \in inserted
    BY <1>1
  <2>2. PICK k \in S : \E p \in held[k] : NextPreset(n, p) /\ k \in inserted /\ pc[n] = "items"
    BY <1>3, <2>1
  <2> QED
    BY <2>1, <2>2 DEF TypeOK
<1>5. PICK g \in W : \A w \in W : w <= g
  BY <1>4, GreatestUpTo, CatalogAssumption DEF Presets
<1>6. PICK n \in S : NextPreset(n, g) /\ n \in inserted /\ g \in Presets
  OBVIOUS
<1>7. PICK k \in S : \E p \in held[k] : NextPreset(n, p) /\ k \in inserted
  BY <1>3, <1>6
<1>8. g \in held[k]
  BY <1>6, <1>7, CatalogAssumption DEF NextPreset, Presets, TypeOK
<1>9. PICK q : NextPreset(k, q) /\ pc[k] = "items"
  BY <1>3, <1>7
<1>10. q \in todo[k] /\ q \in Presets
  BY <1>9 DEF NextPreset, TypeOK
<1>11. g < q
  BY <1>7, <1>8, <1>10 DEF HeldInv
<1>12. q \in W
  BY <1>7, <1>9, <1>10
<1> HIDE DEF W
<1> QED
  BY <1>5, <1>6, <1>10, <1>11, <1>12, CatalogAssumption DEF Presets

\* Inserting a save's entries in one order for everyone rules out a deadlock of save
\* transactions, however many there are and whatever they pick.
THEOREM SpecNoWaitCycle == Spec => []NoWaitCycle
BY SpecIInv, IInvNoWaitCycle, PTL

\* No step of a save removes or rewrites an entry that is stored.
THEOREM SpecEditsSurviveSaves == Spec => EditsSurviveSaves
<1>1. [Next]_vars => [pc' # pc => wardrobe \subseteq wardrobe']_vars
  <2> SUFFICES ASSUME Next, pc' # pc PROVE wardrobe \subseteq wardrobe'
    OBVIOUS
  <2>1. ASSUME NEW u \in Users, NEW i \in wardrobe, NEW patch \in Patches, Update(u, i, patch)
        PROVE  FALSE
    BY <2>1 DEF Update
  <2>2. ASSUME NEW n \in Attempts, NEW in \in Inputs, Receive(n, in)
        PROVE  wardrobe \subseteq wardrobe'
    BY <2>2 DEF Receive, table
  <2>3. ASSUME NEW n \in Attempts, Step(n) \/ Fail(n) \/ CommitUnseen(n)
        PROVE  wardrobe \subseteq wardrobe'
    BY <2>3 DEF Step, InsertTransfer, CompareTransfer, InsertItem, SelectSaved, Commit, RollBack,
                Fail, CommitUnseen, Publish, table
  <2> QED
    BY <2>1, <2>2, <2>3 DEF Next
<1> QED
  BY <1>1, PTL DEF Spec, EditsSurviveSaves

-----------------------------------------------------------------------------

\* The ledger, as instantiated, speaks of the same data.
LEMMA LedgerData ==
    /\ Ledger!Inputs = Inputs
    /\ \A in : Ledger!PickedSet(in) = PickedSet(in) /\ Ledger!ValidSelection(in) = ValidSelection(in)
    /\ \A n, in : Ledger!NewRow(n, in) = NewRow(n, in)
    /\ \A u, p : Ledger!NewItem(u, p) = NewItem(u, p)
    /\ \A items, u, p : Ledger!Owns(items, u, p) = Owns(items, u, p)
    /\ \A row, in : Ledger!SameSelection(row, in) = SameSelection(row, in)
    /\ \A patch : Ledger!ValidPatch(patch) = ValidPatch(patch)
    /\ \A i, patch : Ledger!Patched(i, patch) = Patched(i, patch)
<1>1. Ledger!Inputs = Inputs
  BY DEF Ledger!Inputs, Inputs
<1>2. ASSUME NEW in PROVE Ledger!PickedSet(in) = PickedSet(in)
  BY DEF Ledger!PickedSet, PickedSet
<1>3. ASSUME NEW in PROVE Ledger!ValidSelection(in) = ValidSelection(in)
  BY DEF Ledger!ValidSelection, ValidSelection, Ledger!Presets, Presets
<1>4. ASSUME NEW n, NEW in PROVE Ledger!NewRow(n, in) = NewRow(n, in)
  BY DEF Ledger!NewRow, NewRow
<1>5. ASSUME NEW u, NEW p PROVE Ledger!NewItem(u, p) = NewItem(u, p)
  BY DEF Ledger!NewItem, NewItem
<1>6. ASSUME NEW items, NEW u, NEW p PROVE Ledger!Owns(items, u, p) = Owns(items, u, p)
  BY DEF Ledger!Owns, Owns
<1>7. ASSUME NEW row, NEW in PROVE Ledger!SameSelection(row, in) = SameSelection(row, in)
  BY DEF Ledger!SameSelection, SameSelection
<1>8. ASSUME NEW patch PROVE Ledger!ValidPatch(patch) = ValidPatch(patch)
  BY DEF Ledger!ValidPatch, ValidPatch
<1>9. ASSUME NEW i, NEW patch PROVE Ledger!Patched(i, patch) = Patched(i, patch)
  BY DEF Ledger!Patched, Patched
<1> QED
  BY <1>1, <1>2, <1>3, <1>4, <1>5, <1>6, <1>7, <1>8, <1>9

\* What a COMMIT publishes is the ledger's whole save, or nothing new.
LEMMA PublishIsApply ==
    ASSUME IInv, NEW n \in Attempts, pc[n] \in {"commit", "committing"}, Publish(n)
    PROVE  /\ n \in inserted => Ledger!Apply(n)
           /\ n \notin inserted => UNCHANGED table
<1> USE DEF IInv
<1>1. CASE n \in inserted
  <2>1. held[n] = {q \in PickedSet(input[n]) : ~Owns(wardrobe, input[n].user, q)}
    BY <1>1 DEF HeldInv, CoverInv
  <2>2. ValidSelection(input[n]) /\ \A row \in progress : row.transfer # input[n].transfer
    BY <1>1 DEF CallInv, Running, OpenInv, Transfer
  <2>3. progress' = progress \cup {NewRow(n, input[n])}
    BY <1>1 DEF Publish, Visible
  <2>4. wardrobe' = wardrobe \cup {NewItem(input[n].user, p) : p \in held[n]}
    BY DEF Publish
  <2> QED
    BY <1>1, <2>1, <2>2, <2>3, <2>4, LedgerData DEF Ledger!Apply
<1>2. CASE n \notin inserted
  BY <1>2 DEF HeldInv, Publish, Visible, table
<1> QED
  BY <1>1, <1>2

\* A call that was not answered with success shows nothing, before and after the step.
LEMMA ShownUnchanged ==
    ASSUME \A n \in Attempts : /\ answer[n] = "ok" <=> answer'[n] = "ok"
                               /\ answer[n] = "ok" => saved'[n] = saved[n]
    PROVE  UNCHANGED Shown
BY DEF Shown

\* Every step of the tables is a step of the ledger, or leaves it alone.
LEMMA StepImplementsLedger ==
    IInv /\ [Next]_vars => [Ledger!Next]_(Ledger!lvars)
<1> SUFFICES ASSUME IInv, [Next]_vars
             PROVE  Ledger!Next \/ UNCHANGED <<input, progress, wardrobe, answer, Shown>>
  BY DEF Ledger!lvars
<1> USE DEF IInv
<1>1. ASSUME NEW n \in Attempts, NEW in \in Inputs, Receive(n, in)
      PROVE  Ledger!Next
  <2>1. input[n] = NoInput /\ answer[n] = "none"
    BY <1>1 DEF Receive, CallInv
  <2>2. \/ UNCHANGED answer
        \/ ~ValidSelection(in) /\ answer' = [answer EXCEPT ![n] = "invalid"]
    BY <1>1 DEF Receive, Reply
  <2>3. UNCHANGED Shown
    BY <1>1, <2>1, <2>2, ShownUnchanged DEF Receive, TypeOK
  <2>4. Ledger!Ask(n, in)
    BY <1>1, <2>1, <2>2, <2>3, LedgerData DEF Ledger!Ask, Receive, table
  <2> QED
    BY <2>4, LedgerData DEF Ledger!Next
<1>2. ASSUME NEW n \in Attempts, InsertTransfer(n)
      PROVE  UNCHANGED <<input, progress, wardrobe, answer, Shown>>
  BY <1>2, ShownUnchanged DEF InsertTransfer, table
<1>3. ASSUME NEW n \in Attempts, NEW p \in todo[n], InsertItem(n, p)
      PROVE  UNCHANGED <<input, progress, wardrobe, answer, Shown>>
  BY <1>3, ShownUnchanged DEF InsertItem, table
<1>4. ASSUME NEW n \in Attempts, SelectSaved(n)
      PROVE  UNCHANGED <<input, progress, wardrobe, answer, Shown>>
  <2>1. answer[n] # "ok" /\ UNCHANGED <<input, progress, wardrobe, answer>>
    BY <1>4 DEF SelectSaved, table, CallInv
  <2>2. \A m \in Attempts \ {n} : saved'[m] = saved[m]
    BY <1>4 DEF SelectSaved, TypeOK
  <2> QED
    BY <2>1, <2>2, ShownUnchanged
<1>5. ASSUME NEW n \in Attempts, CompareTransfer(n)
      PROVE  Ledger!Next \/ UNCHANGED <<input, progress, wardrobe, answer, Shown>>
  <2>1. /\ UNCHANGED <<input, progress, wardrobe, saved>>
        /\ pc[n] = "compare" /\ input[n] \in Inputs /\ answer[n] = "none"
    BY <1>5 DEF CompareTransfer, table, CallInv
  <2>2. CASE UNCHANGED answer
    BY <2>1, <2>2, ShownUnchanged
  <2>3. CASE ~UNCHANGED answer
    <3>1. /\ answer' = [answer EXCEPT ![n] = "conflict"]
          /\ \E row \in progress : row.transfer = input[n].transfer /\ ~SameSelection(row, input[n])
      BY <1>5, <2>3 DEF CompareTransfer, Reply, Transfer
    <3>2. UNCHANGED Shown
      BY <2>1, <3>1, ShownUnchanged DEF TypeOK
    <3>3. Ledger!Refuse(n)
      BY <2>1, <3>1, <3>2, LedgerData DEF Ledger!Refuse, Ledger!Pending
    <3> QED
      BY <3>3 DEF Ledger!Next
  <2> QED
    BY <2>2, <2>3
<1>6. ASSUME NEW n \in Attempts, Commit(n)
      PROVE  Ledger!Next
  <2>1. /\ pc[n] = "commit" /\ input[n] \in Inputs /\ answer[n] = "none" /\ Publish(n)
        /\ answer' = [answer EXCEPT ![n] = "ok"] /\ UNCHANGED <<input, saved>>
        /\ saved[n] \in progress' /\ saved[n].transfer = input[n].transfer
        /\ SameSelection(saved[n], input[n])
    BY <1>6 DEF Commit, CallInv, Reply, SavedInv, Publish, Transfer
  <2>2. Shown' = [Shown EXCEPT ![n] = saved[n]]
    BY <2>1 DEF Shown, TypeOK
  <2>3. Ledger!Apply(n) \/ Ledger!Repeat(n)
    <3>1. CASE n \in inserted
      BY <2>1, <3>1, PublishIsApply
    <3>2. CASE n \notin inserted
      BY <2>1, <3>2, PublishIsApply, LedgerData DEF Ledger!Repeat, MatchInv, Transfer, table
    <3> QED
      BY <3>1, <3>2
  <2>4. Ledger!Accept(n)
    BY <2>1, <2>2, <2>3, LedgerData DEF Ledger!Accept, Ledger!Pending
  <2> QED
    BY <2>4 DEF Ledger!Next
<1>7. ASSUME NEW n \in Attempts, Fail(n)
      PROVE  Ledger!Next
  <2>1. /\ input[n] \in Inputs /\ answer[n] = "none" /\ answer' = [answer EXCEPT ![n] = "error"]
        /\ UNCHANGED <<input, progress, wardrobe, saved>>
    BY <1>7 DEF Fail, CallInv, table
  <2>2. UNCHANGED Shown
    BY <2>1, ShownUnchanged DEF TypeOK
  <2>3. Ledger!Lose(n)
    BY <2>1, <2>2, LedgerData DEF Ledger!Lose, Ledger!Pending
  <2> QED
    BY <2>3 DEF Ledger!Next
<1>8. ASSUME NEW n \in Attempts, RollBack(n)
      PROVE  UNCHANGED <<input, progress, wardrobe, answer, Shown>>
  BY <1>8, ShownUnchanged DEF RollBack, table
<1>9. ASSUME NEW n \in Attempts, CommitUnseen(n)
      PROVE  Ledger!Next \/ UNCHANGED <<input, progress, wardrobe, answer, Shown>>
  <2>1. /\ pc[n] = "committing" /\ input[n] \in Inputs /\ answer[n] = "error" /\ Publish(n)
        /\ UNCHANGED <<input, answer, saved>>
    BY <1>9 DEF CommitUnseen, CallInv
  <2>2. UNCHANGED Shown
    BY <2>1, ShownUnchanged
  <2>3. CASE n \in inserted
    <3>1. Ledger!Apply(n)
      BY <2>1, <2>3, PublishIsApply
    <3>2. Ledger!ApplyLate(n)
      BY <2>1, <2>2, <3>1, LedgerData DEF Ledger!ApplyLate
    <3> QED
      BY <3>2 DEF Ledger!Next
  <2>4. CASE n \notin inserted
    BY <2>1, <2>2, <2>4, PublishIsApply DEF table
  <2> QED
    BY <2>3, <2>4
<1>10. ASSUME NEW u \in Users, NEW i \in wardrobe, NEW patch \in Patches, Update(u, i, patch)
       PROVE  Ledger!Next
  <2>1. UNCHANGED Shown
    BY <1>10, ShownUnchanged DEF Update
  <2>2. Ledger!Edit(i, patch)
    BY <1>10, <2>1, LedgerData DEF Ledger!Edit, Update
  <2> QED
    BY <2>2 DEF Ledger!Next
<1>11. CASE UNCHANGED vars
  BY <1>11, ShownUnchanged DEF vars, table
<1> QED
  BY <1>1, <1>2, <1>3, <1>4, <1>5, <1>6, <1>7, <1>8, <1>9, <1>10, <1>11 DEF Next, Step

\* The statement-by-statement transaction implements the atomic, idempotent ledger: every
\* save takes effect at once at its COMMIT, or not at all.
THEOREM SpecImplementsLedger == Spec => ImplementsLedger
<1>1. Init => Ledger!Init
  BY DEF Init, Ledger!Init, Shown
<1> QED
  BY <1>1, SpecIInv, StepImplementsLedger, PTL DEF Spec, ImplementsLedger, Ledger!Spec
==============================================================================
